---- MODULE Spec2Model ----
(***************************************************************************)
(* Model of the AQUILA chat mediator (AlejandroMBJS/chatIA):               *)
(*   - SecurityService   (internal/config/config.go, second file)          *)
(*   - OllamaService     (internal/services/ollama.go)                     *)
(*   - AIHandler         (unnamed/part_001)                                *)
(*   - admin filter handlers (unnamed/part_004), SQL (unnamed/part_012)    *)
(* Strings that the code inspects character by character (contents,       *)
(* patterns, names) are tuples of one-character strings.                   *)
(***************************************************************************)
EXTENDS Integers, Sequences, FiniteSets, TLC

VARIABLES
    store,        \* security_filters table: set of rows
    nextFilterID, \* AUTOINCREMENT counter of security_filters
    filters,      \* SecurityService.filters: the installed rule list
    lastCheck,    \* the most recent call of checkContent against the installed
                  \* list (its arguments and what it returned); Nil once the
                  \* list has been replaced
    messages,     \* ai_messages rows of the conversation, in created_at order
    violations,   \* security log rows written by LogViolation
    touched,      \* how many times TouchConversation ran
    knowledge,    \* active knowledge-base snippets
    cfgRetries,   \* cfg.OllamaRetries
    available,    \* OllamaService.available
    turn,         \* requests the handler has accepted so far
    pc,           \* where the request in progress stands
    attempt,      \* Chat's loop variable
    lastErr,      \* Chat's lastErr
    chatMessages, \* the messages argument of the Chat call in progress
    curContent,   \* the handler's content (sanitised user text)
    cancelled,    \* r.Context() is done (the caller went away)
    requests,     \* bodies of the POST /api/chat requests sent so far
    waits,        \* backoffs (seconds) the Chat call in progress waited out
    answers,      \* what the server answered to the requests of that call
    blockedInputs,\* contents of user turns the input check blocked
    chatRet,      \* what the last Chat call returned
    reply,        \* what the handler answered
    frames,       \* SSE frames written to the response writer, in order
    spc,          \* where the producer goroutine stands
    ppc,          \* where the pump loop (the handler's goroutine) stands
    gotFirstChunk,\* the handler's flag, written by the producer
    fullResponse, \* the handler's builder, written by onChunk
    svcResponse,  \* ChatStreamWithModel's builder
    streamErr,    \* the handler's streamErr, set when the producer returns
    filterResult, \* the handler's filterResult, set when the producer returns
    streamDone,   \* the channel streamDone is closed
    streamCancelled, \* streamCtx is done
    linesRead,    \* lines the scanner has returned
    rw,           \* SecurityService.filtersMutex: the writer and the readers
    apc,          \* where each admin request stands
    aloc,         \* each admin request's locals (filter, newStatus, dbFilters)
    reloadRet,    \* what each admin's last ReloadFilters call returned
    cpc,          \* where each reader (checkContent / GetFilters call) stands
    cargs,        \* each reader's call and arguments
    installed,    \* the list as the last completed ReloadFilters left it
    retired,      \* rules switched off or deleted before a completed reload began
    opsDone,      \* admin requests accepted so far
    now,          \* the wall clock, in seconds
    lastCheckAt,  \* OllamaService.lastCheck (the zero time until first set)
    probes,       \* GET /api/tags requests sent so far
    vpc,          \* where each availability call stands
    vloc,         \* each availability call's locals (lastCheck, available)
    vret,         \* what each caller's last IsAvailable call returned
    marks,        \* markAvailable / markUnavailable calls made so far
    currentModel, \* OllamaService.currentModel, the globally selected model
    convModel,    \* ai_conversations.model of the conversation ("" when unset)
    hpc,          \* where each of the concurrent SendMessage requests stands
    hcontent,     \* each concurrent request's content (sanitised user text)
    arrived,      \* the lines of the streaming response read so far, in order
    posted,       \* the "content" form value of the request received last
    page,         \* what Scraper.Scrape returned for the URL (content, err)
    extract,      \* what ScrapeForAI returned for it (result, err)
    rl,           \* the RateLimiter: requests, limit, window
    allowLog,     \* the Allow and Reset calls made so far, with their results
    clients,      \* Hub.clients
    send,         \* what each client's send channel holds
    closes,       \* how many times close ran on each client's send channel
    hubpc,        \* where Hub.Run stands
    hubloc,       \* broadcastToAll's message and the clients its loop has left
    rpc,          \* where each client's handler and readPump stand
    rloc,         \* each readPump's data and the messages it has read
    wpc,          \* where each client's writePump stands
    hubPanic,     \* the runtime panic that ended the process, "" when none
    groupMessages \* group_messages rows

ruleVars == <<store, nextFilterID, filters>>
convVars == <<messages, violations, touched>>
cfgVars == <<knowledge, cfgRetries>>
callVars == <<pc, attempt, lastErr, chatMessages, curContent, waits, answers>>
chatVars == <<available, turn, cancelled, requests, chatRet, reply, blockedInputs>>

streamVars == <<frames, spc, ppc, gotFirstChunk, fullResponse, svcResponse,
                streamErr, filterResult, streamDone, streamCancelled, linesRead>>

lockVars == <<rw, apc, aloc, reloadRet, cpc, cargs, installed, retired,
              opsDone>>

availVars == <<now, lastCheckAt, probes, vpc, vloc, vret, marks>>

modelVars == <<currentModel, convModel>>

turnVars == <<hpc, hcontent>>

wireVars == <<arrived>>

inputVars == <<posted>>

scrapeVars == <<page, extract>>

limitVars == <<rl, allowLog>>

hubVars == <<clients, send, closes, hubpc, hubloc, rpc, rloc, wpc, hubPanic,
             groupMessages>>

sideVars == <<scrapeVars, limitVars, hubVars>>

auxVars == <<lockVars, availVars, modelVars, turnVars, wireVars, inputVars, sideVars>>

vars == <<ruleVars, lastCheck, convVars, cfgVars, callVars, chatVars, streamVars,
          auxVars>>

\* A nil pointer; a found text is wrapped so that both are records
Nil == [nil |-> TRUE]
Text(t) == [text |-> t]

\* ------------------------------------------------------------------ bounds
MaxFilters == 3
MaxRetries == 4
MaxTurns == 2
MaxLines == 3
MaxBeats == 2
MaxOps == 2
MaxClock == 60
MaxMarks == 1

\* ------------------------------------------------------ program constants
\* cfg.OllamaModel, and a model a conversation may have been created with
DefaultModel == "deepseek-r1:14b"
OtherModel == "llama3"

\* The longest content the handlers accept, in bytes
MaxContentLen == 4000

\* OLLAMA_RETRIES default
DefaultRetries == 3
\* OllamaService.checkPeriod, in seconds
CheckPeriod == 30

\* ------------------------------------------------------------- characters
\* Byte values of the characters the model uses (SQLite's BINARY collation
\* and Go's string comparison both compare bytes).
Byte ==
    ("\n" :> 10) @@ ("-" :> 45) @@ ("." :> 46) @@ ("/" :> 47) @@ (":" :> 58) @@
    ("[" :> 91) @@ ("]" :> 93) @@
    (" " :> 32) @@ ("(" :> 40) @@ ("," :> 44) @@
    ("&" :> 38) @@ (";" :> 59) @@ ("<" :> 60) @@ (">" :> 62) @@
    ("D" :> 68) @@ ("S" :> 83) @@ ("X" :> 88) @@
    ("a" :> 97) @@ ("b" :> 98) @@ ("c" :> 99) @@ ("d" :> 100) @@
    ("e" :> 101) @@ ("g" :> 103) @@ ("h" :> 104) @@ ("i" :> 105) @@
    ("k" :> 107) @@ ("l" :> 108) @@ ("m" :> 109) @@ ("o" :> 111) @@
    ("r" :> 114) @@ ("s" :> 115) @@ ("t" :> 116) @@ ("u" :> 117) @@
    ("n" :> 110) @@ ("p" :> 112) @@ ("q" :> 113) @@ ("y" :> 121) @@
    ("w" :> 119) @@ ("x" :> 120) @@ ("z" :> 122) @@ ("T" :> 84)

\* strings.ToLower on one character
ToLowerChar(c) ==
    IF Byte[c] >= 65 /\ Byte[c] <= 90
    THEN CHOOSE d \in DOMAIN Byte : Byte[d] = Byte[c] + 32
    ELSE c

ToLower(s) == [i \in 1..Len(s) |-> ToLowerChar(s[i])]

\* strings.Contains(s, sub)
Contains(s, sub) ==
    \E i \in 0..(Len(s) - Len(sub)) :
        \A j \in 1..Len(sub) : s[i + j] = sub[j]

\* strings.TrimSpace
RECURSIVE TrimLeft(_)
TrimLeft(s) == IF s # <<>> /\ Head(s) = " " THEN TrimLeft(Tail(s)) ELSE s

RECURSIVE TrimRight(_)
TrimRight(s) ==
    IF s # <<>> /\ s[Len(s)] = " " THEN TrimRight(SubSeq(s, 1, Len(s) - 1)) ELSE s

TrimSpace(s) == TrimRight(TrimLeft(s))

\* strings.Split(s, ","): the pieces between commas, empty pieces kept
RECURSIVE SplitComma(_, _)
SplitComma(s, cur) ==
    IF s = <<>> THEN <<cur>>
    ELSE IF Head(s) = "," THEN <<cur>> \o SplitComma(Tail(s), <<>>)
    ELSE SplitComma(Tail(s), Append(cur, Head(s)))

\* byte-wise "a < b" on character tuples
RECURSIVE BytesLess(_, _)
BytesLess(a, b) ==
    IF b = <<>> THEN FALSE
    ELSE IF a = <<>> THEN TRUE
    ELSE IF Byte[Head(a)] # Byte[Head(b)] THEN Byte[Head(a)] < Byte[Head(b)]
    ELSE BytesLess(Tail(a), Tail(b))

\* The text a severity value is stored as (security_filters.severity TEXT)
SeverityText ==
    ("critical" :> <<"c", "r", "i", "t", "i", "c", "a", "l">>) @@
    ("high" :> <<"h", "i", "g", "h">>) @@
    ("medium" :> <<"m", "e", "d", "i", "u", "m">>) @@
    ("low" :> <<"l", "o", "w">>)

Severities == DOMAIN SeverityText
Actions == {"block", "warn", "log"}
Directions == {"input", "output"}

\* ------------------------------------------------------- security_filters
\* Rows an administrator may submit to CreateFilter (name, filter_type,
\* pattern, action, applies_to, severity).  Regex patterns of the model are
\* literals; a pattern holding "(" stands for one regexp.Compile rejects.
Row(name, ftype, pattern, action, appliesTo, severity) ==
    [Name |-> name, FilterType |-> ftype, Pattern |-> pattern,
     Action |-> action, AppliesTo |-> appliesTo, Severity |-> severity]

FilterForms ==
    { Row(<<"s", "q", "l">>, "regex", <<"D", "T">>, "block", "input", "critical"),
      Row(<<"p", "a", "y">>, "keyword", <<"S", ",", " ", "w">>, "warn", "both", "medium"),
      Row(<<"c", "a", "r", "d">>, "regex", <<"d", "d">>, "block", "both", "low"),
      Row(<<"b", "a", "d">>, "regex", <<"(", "x">>, "block", "both", "high"),
      Row(<<"t", "a", "g">>, "category", <<"X">>, "log", "output", "high") }

\* Contents handed to CheckInput / CheckOutput
Contents ==
    { <<"h", "i">>, <<"D", "T", "s">>, <<"d", "t">>, <<"S", "x">>,
      <<"d", "d">>, <<"d", "d", "w">> }

\* ---------------------------------------------------------------- queries
\* ORDER BY severity DESC, name ASC over TEXT columns: row a comes before b
QueryBefore(a, b) ==
    \/ BytesLess(SeverityText[b.Severity], SeverityText[a.Severity])
    \/ /\ a.Severity = b.Severity
       /\ BytesLess(a.Name, b.Name)

\* The rows of a set as the sequence the ORDER BY yields (names are UNIQUE)
RECURSIVE OrderRows(_)
OrderRows(rows) ==
    IF rows = {} THEN <<>>
    ELSE LET first == CHOOSE r \in rows :
                          \A o \in rows \ {r} : QueryBefore(r, o)
         IN  <<first>> \o OrderRows(rows \ {first})

\* The query without its WHERE clause: every row, active or not
GetEverySecurityFilter(table) == OrderRows(table)

\* GetActiveSecurityFilters: WHERE is_active = 1 ORDER BY severity DESC, name ASC
GetActiveSecurityFilters(table) ==
    OrderRows({r \in table : r.IsActive = 1})

\* ------------------------------------------------------- SecurityService
\* regexp.Compile on the model's patterns
RegexCompiles(pattern) == \A i \in 1..Len(pattern) : pattern[i] # "("

\* The keywords of a keyword rule: Split(ToLower(pattern), ","), each trimmed
RECURSIVE TrimEach(_)
TrimEach(parts) ==
    IF parts = <<>> THEN <<>>
    ELSE <<TrimSpace(Head(parts))>> \o TrimEach(Tail(parts))

Keywords(pattern) == TrimEach(SplitComma(ToLower(pattern), <<>>))

\* One SecurityFilter built from a row (the body of ReloadFilters' loop)
BuildFilter(f) ==
    [ID |-> f.ID, Name |-> f.Name, FilterType |-> f.FilterType,
     Pattern |-> f.Pattern, Action |-> f.Action, AppliesTo |-> f.AppliesTo,
     Severity |-> f.Severity,
     compiled |-> IF f.FilterType = "regex" THEN [lit |-> f.Pattern] ELSE Nil,
     keywords |-> IF f.FilterType = "keyword" THEN Keywords(f.Pattern) ELSE <<>>]

\* ReloadFilters' loop: a regex row that does not compile is skipped
RECURSIVE LoadFilters(_)
LoadFilters(dbFilters) ==
    IF dbFilters = <<>> THEN <<>>
    ELSE LET f == Head(dbFilters)
         IN  IF f.FilterType = "regex" /\ ~RegexCompiles(f.Pattern)
             THEN LoadFilters(Tail(dbFilters))
             ELSE <<BuildFilter(f)>> \o LoadFilters(Tail(dbFilters))

\* ReloadFilters when the query succeeds
ReloadFilters(table) == LoadFilters(GetActiveSecurityFilters(table))

\* compiled.FindString(content): the leftmost match, "" when there is none
FindString(compiled, content) ==
    IF Contains(content, compiled.lit) THEN compiled.lit ELSE <<>>

\* The first keyword contained in contentLower (wrapped), or Nil
RECURSIVE FirstKeyword(_, _)
FirstKeyword(keywords, contentLower) ==
    IF keywords = <<>> THEN Nil
    ELSE IF Contains(contentLower, Head(keywords)) THEN Text(Head(keywords))
    ELSE FirstKeyword(Tail(keywords), contentLower)

\* The text a filter matches in content (wrapped), or Nil: the switch on
\* FilterType
MatchedText(filter, content) ==
    LET contentLower == ToLower(content)
    IN  CASE filter.FilterType = "regex" ->
               IF filter.compiled # Nil /\ FindString(filter.compiled, content) # <<>>
               THEN Text(FindString(filter.compiled, content)) ELSE Nil
          [] filter.FilterType = "keyword" ->
               FirstKeyword(filter.keywords, contentLower)
          [] filter.FilterType = "category" ->
               IF Contains(contentLower, ToLower(filter.Pattern))
               THEN Text(filter.Pattern) ELSE Nil
          [] OTHER -> Nil

\* A loop that evaluates every filter whatever the direction
AppliesAlways(filter, direction) == TRUE

\* Whether checkContent's loop evaluates the filter for the direction
Applies(filter, direction) ==
    filter.AppliesTo = "both" \/ filter.AppliesTo = direction

\* A switch that lets only log rules pass
ResultBlockedUnlessLog(filter) == filter.Action # "log"

\* The FilterResult built for a matching filter (the switch on Action)
ResultBlocked(filter) == filter.Action = "block"

ResultReason(filter) ==
    CASE filter.Action = "block" -> "Contenido bloqueado por politica de seguridad: "
      [] filter.Action = "warn" -> "Advertencia de seguridad: "
      [] filter.Action = "log" -> "Contenido registrado: "
      [] OTHER -> ""

FilterResult(filter, matchedText) ==
    [Blocked |-> ResultBlocked(filter), FilterID |-> filter.ID,
     FilterName |-> filter.Name, Action |-> filter.Action,
     Severity |-> filter.Severity, Reason |-> ResultReason(filter),
     MatchedText |-> matchedText]

\* checkContent: the result for the first filter, in list order, that applies
\* to the direction and matches; Nil when none does
RECURSIVE checkContent(_, _, _)
checkContent(list, content, direction) ==
    IF list = <<>> THEN Nil
    ELSE LET filter == Head(list)
         IN  IF Applies(filter, direction) /\ MatchedText(filter, content) # Nil
             THEN FilterResult(filter, MatchedText(filter, content).text)
             ELSE checkContent(Tail(list), content, direction)

CheckInput(list, content) == checkContent(list, content, "input")
CheckOutput(list, content) == checkContent(list, content, "output")

\* ------------------------------------------------- rule administration
\* AdminHandler.CreateFilter: INSERT (name is UNIQUE, id AUTOINCREMENT,
\* is_active defaults to 1), then ReloadFilters
CreateFilter(form) ==
    /\ UNCHANGED <<streamVars, auxVars>>
    /\ form.Name # <<>> /\ form.Pattern # <<>>
    /\ \A r \in store : r.Name # form.Name
    /\ nextFilterID <= MaxFilters
    /\ store' = store \cup
         {[ID |-> nextFilterID, Name |-> form.Name, FilterType |-> form.FilterType,
           Pattern |-> form.Pattern, Action |-> form.Action,
           AppliesTo |-> form.AppliesTo, Severity |-> form.Severity,
           IsActive |-> 1]}
    /\ nextFilterID' = nextFilterID + 1
    /\ filters' = ReloadFilters(store')
    /\ lastCheck' = Nil
    /\ UNCHANGED <<convVars, cfgVars, callVars, chatVars>>

\* AdminHandler.ToggleFilter: flip is_active of the row, then ReloadFilters
ToggleFilter(filterID) ==
    /\ UNCHANGED <<streamVars, auxVars>>
    /\ \E filter \in store :
          /\ filter.ID = filterID
          /\ store' = (store \ {filter}) \cup
                {[filter EXCEPT !.IsActive = IF filter.IsActive = 1 THEN 0 ELSE 1]}
    /\ filters' = ReloadFilters(store')
    /\ lastCheck' = Nil
    /\ UNCHANGED <<nextFilterID, convVars, cfgVars, callVars, chatVars>>

\* AdminHandler.DeleteFilter: DELETE the row, then ReloadFilters
DeleteFilter(filterID) ==
    /\ UNCHANGED <<streamVars, auxVars>>
    /\ \E filter \in store :
          /\ filter.ID = filterID
          /\ store' = store \ {filter}
    /\ filters' = ReloadFilters(store')
    /\ lastCheck' = Nil
    /\ UNCHANGED <<nextFilterID, convVars, cfgVars, callVars, chatVars>>

\* A call of CheckInput or CheckOutput against the installed list
Check(direction, content) ==
    /\ UNCHANGED <<streamVars, auxVars>>
    /\ lastCheck' = [direction |-> direction, content |-> content,
                     result |-> checkContent(filters, content, direction)]
    /\ UNCHANGED <<ruleVars, convVars, cfgVars, callVars, chatVars>>

\* Concurrent admin requests and concurrent readers of the rule list
Admins == {1, 2}
Readers == {1, 2}

\* The locals of an admin request that has not read anything yet
NoLocals == [op |-> "none", id |-> 0, newStatus |-> 0, dbFilters |-> <<>>,
             i |-> 0, off |-> {}]

\* Requests of one conversation served at the same time
Handlers == {1, 2}

\* Goroutines that call IsAvailable, and with them (as 0) the goroutine
\* NewOllamaService starts to run checkAvailability
Callers == {1, 2}
Probers == {0} \cup Callers

\* time.Time: the zero value, or a reading of the clock
ZeroTime == [zero |-> TRUE, at |-> 0]
Time(t) == [zero |-> FALSE, at |-> t]

\* The locals of an availability call that has read nothing yet
NoProbe == [lastCheck |-> ZeroTime, available |-> FALSE]

\* The handler and client state while no request is being served
\* No page has been scraped
NoScrape == page = Nil /\ extract = Nil

\* The clients of the group chat and the keys (client addresses) of the
\* rate limiter
HubClients == {1, 2}
Keys == {"ip1", "ip2"}

\* A key that is not in the map of the limiter, and one that is
NoEntry == [exists |-> FALSE, times |-> <<>>]
Entry(times) == [exists |-> TRUE, times |-> times]

\* A limiter that is not used
NoLimiter ==
    /\ rl = [requests |-> [k \in Keys |-> NoEntry], limit |-> 0, window |-> 0]
    /\ allowLog = <<>>

\* NewHub, before any client connected
NoHub ==
    /\ clients = {}
    /\ send = [c \in HubClients |-> <<>>]
    /\ closes = [c \in HubClients |-> 0]
    /\ hubpc = "select"
    /\ hubloc = [message |-> Nil, todo |-> {}]
    /\ rpc = [c \in HubClients |-> "new"]
    /\ rloc = [c \in HubClients |-> [data |-> Nil, reads |-> 0]]
    /\ wpc = [c \in HubClients |-> "none"]
    /\ hubPanic = ""
    /\ groupMessages = <<>>

\* Nothing is in progress in the services of the chat
Settled ==
    /\ messages = <<>> /\ violations = <<>> /\ touched = 0
    /\ available = FALSE /\ turn = 0
    /\ pc = "idle" /\ attempt = 0 /\ lastErr = Nil
    /\ chatMessages = <<>> /\ curContent = <<>> /\ cancelled = FALSE
    /\ requests = <<>> /\ waits = <<>> /\ chatRet = Nil /\ reply = Nil
    /\ answers = <<>> /\ blockedInputs = {}
    /\ frames = <<>> /\ spc = "none" /\ ppc = "none" /\ gotFirstChunk = FALSE
    /\ fullResponse = <<>> /\ svcResponse = <<>> /\ streamErr = Nil
    /\ filterResult = Nil /\ streamDone = FALSE /\ streamCancelled = FALSE
    /\ linesRead = 0
    /\ rw = [w |-> 0, readers |-> 0]
    /\ apc = [a \in Admins |-> "idle"]
    /\ aloc = [a \in Admins |-> NoLocals]
    /\ reloadRet = [a \in Admins |-> Nil]
    /\ cpc = [c \in Readers |-> "idle"]
    /\ cargs = [c \in Readers |-> Nil]
    /\ installed = filters
    /\ retired = {}
    /\ opsDone = 0
    /\ now = 0
    /\ lastCheckAt = ZeroTime
    /\ probes = 0
    /\ vpc = [c \in Probers |-> IF c = 0 THEN "ping" ELSE "idle"]
    /\ vloc = [c \in Probers |-> NoProbe]
    /\ vret = [c \in Callers |-> Nil]
    /\ marks = 0
    /\ hpc = [h \in Handlers |-> "idle"]
    /\ hcontent = [h \in Handlers |-> <<>>]
    /\ arrived = <<>>
    /\ posted = <<>>

Quiescent == Settled /\ NoScrape /\ NoLimiter /\ NoHub

\* NewSecurityService: the list is loaded once at construction
InitRules ==
    /\ store = {}
    /\ nextFilterID = 1
    /\ filters = ReloadFilters(store)
    /\ lastCheck = Nil
    /\ knowledge = <<>> /\ cfgRetries = DefaultRetries
    /\ currentModel = DefaultModel /\ convModel = ""
    /\ Quiescent

NextRules ==
    \/ \E form \in FilterForms : CreateFilter(form)
    \/ \E id \in 1..MaxFilters : ToggleFilter(id)
    \/ \E id \in 1..MaxFilters : DeleteFilter(id)
    \/ \E d \in Directions, c \in Contents : Check(d, c)

SpecRules == InitRules /\ [][NextRules]_vars

\* ============================================================ the chat
\* cfg.SystemPrompt
SystemPrompt == <<"s", "y", "s">>

\* The refusal Chat returns for a blocked response
ChatRefusal == <<"n", "o">>

\* The refusal the handlers store and answer for a blocked verdict
HandlerRefusal == <<"n", "o", "p">>

\* Form values of "content" a caller may post
UserContents ==
    { <<" ">>, <<"h", "i", " ">>, <<"D", "T">>, <<"D", "T", "s">>,
      <<"h", "t", "t", "p", ":", "/", "/", "x", ".">> }

\* A content one byte over the limit
LongContent == [i \in 1..(MaxContentLen + 1) |-> "a"]

\* A handler that only tests the length
RejectsTooLongOnly(content) == Len(content) > MaxContentLen

\* The handlers' validation of the trimmed content: content == "" or
\* len(content) > 4000 is answered with an error
Rejected(content) == content = <<>> \/ Len(content) > MaxContentLen

\* What the inference server may answer to one POST /api/chat
StatusOK == 200
Upstream ==
    { [kind |-> "connect", status |-> 0, decodes |-> FALSE, content |-> <<>>],
      [kind |-> "status", status |-> 500, decodes |-> FALSE, content |-> <<>>],
      [kind |-> "status", status |-> 400, decodes |-> FALSE, content |-> <<>>],
      [kind |-> "status", status |-> StatusOK, decodes |-> FALSE, content |-> <<>>],
      [kind |-> "status", status |-> StatusOK, decodes |-> TRUE, content |-> <<"o", "k">>],
      [kind |-> "status", status |-> StatusOK, decodes |-> TRUE, content |-> <<"d", "d">>] }

\* Errors: the text fmt.Errorf builds and the errors that errors.Is finds in
\* the chain
Err(text, chain) == [text |-> text, is |-> chain]
ErrConnect == Err("error conectando con Ollama", {"net"})
ErrConnectCancelled == Err("error conectando con Ollama", {"context.Canceled"})
ErrStatus(code) == Err("ollama error", {})
ErrDecode == Err("error decodificando respuesta", {"json"})
ErrContext == Err("context canceled", {"context.Canceled"})

\* SanitizeForDisplay: the five HTML characters are replaced by entities
\* (the contents of the model hold no "javascript:", "data:" or "vbscript:")
RECURSIVE SanitizeForDisplay(_)
SanitizeForDisplay(content) ==
    IF content = <<>> THEN <<>>
    ELSE LET c == Head(content)
             e == CASE c = "&" -> <<"&", "a", "m", "p", ";">>
                    [] c = "<" -> <<"&", "l", "t", ";">>
                    [] c = ">" -> <<"&", "g", "t", ";">>
                    [] OTHER -> <<c>>
         IN  e \o SanitizeForDisplay(Tail(content))

\* urlRegex: https?://[^\s<>"{}|\\^`\[\]]+ ; the length of its match at
\* the head of text, 0 when there is none
URLStop == {" ", "\n", "<", ">", "[", "]"}

HasPrefix(text, prefix) ==
    Len(text) >= Len(prefix) /\ SubSeq(text, 1, Len(prefix)) = prefix

RECURSIVE RunLen(_)
RunLen(text) ==
    IF text = <<>> \/ Head(text) \in URLStop THEN 0 ELSE 1 + RunLen(Tail(text))

URLMatchLen(text) ==
    LET http == <<"h", "t", "t", "p", ":", "/", "/">>
        https == <<"h", "t", "t", "p", "s", ":", "/", "/">>
        n == IF HasPrefix(text, https) THEN Len(https)
             ELSE IF HasPrefix(text, http) THEN Len(http) ELSE 0
        run == IF n = 0 THEN 0 ELSE RunLen(SubSeq(text, n + 1, Len(text)))
    IN  IF run = 0 THEN 0 ELSE n + run

\* strings.TrimRight(url, ".,;:!?)")
RECURSIVE TrimPunct(_)
TrimPunct(url) ==
    IF url # <<>> /\ url[Len(url)] \in {".", ",", ";", ":", "!", "?", ")"}
    THEN TrimPunct(SubSeq(url, 1, Len(url) - 1)) ELSE url

\* extractURLs: every match of urlRegex, left to right, each trimmed
RECURSIVE extractURLs(_)
extractURLs(text) ==
    IF text = <<>> THEN <<>>
    ELSE IF URLMatchLen(text) > 0
    THEN <<TrimPunct(SubSeq(text, 1, URLMatchLen(text)))>>
         \o extractURLs(SubSeq(text, URLMatchLen(text) + 1, Len(text)))
    ELSE extractURLs(Tail(text))

\* What ScrapeForAI may return for a URL
Scrapes == { [ok |-> TRUE, text |-> <<"d", "d">>], [ok |-> FALSE, text |-> <<>>] }

\* The lines enrichMessageWithURLContent writes around the pages
EnrichHeader == <<"\n", "-", "\n">>
EnrichFooter == <<"-", "\n">>

\* The text added for the URLs: the page and a newline, or the error note
RECURSIVE Pages(_, _)
Pages(urls, scraped) ==
    IF urls = <<>> THEN <<>>
    ELSE (IF scraped.ok THEN scraped.text \o <<"\n">>
          ELSE <<"\n", "[">> \o Head(urls) \o <<"]", "\n">>)
         \o Pages(Tail(urls), scraped)

\* enrichMessageWithURLContent: a content without URLs is returned as it is;
\* scraped is what ScrapeForAI returns for each of its URLs
enrichMessageWithURLContent(content, scraped) ==
    IF Len(extractURLs(content)) = 0 THEN content
    ELSE content \o EnrichHeader \o Pages(extractURLs(content), scraped)
         \o EnrichFooter

\* getKnowledgeContext: "" without snippets, else the snippets between the
\* two marker lines
RECURSIVE Concat(_)
Concat(seqs) == IF seqs = <<>> THEN <<>> ELSE Head(seqs) \o Concat(Tail(seqs))

getKnowledgeContext(snippets) ==
    IF Len(snippets) = 0 THEN <<>> ELSE <<"k">> \o Concat(snippets) \o <<"k">>

Message(role, content) == [Role |-> role, Content |-> content]

\* The messages SendMessage hands to Chat: the knowledge message when there
\* is one, then the history, its last message enriched when it is a user's
BuildMessages(history, snippets, scraped) ==
    (IF getKnowledgeContext(snippets) # <<>>
     THEN <<Message("system", getKnowledgeContext(snippets))>> ELSE <<>>)
    \o [i \in 1..Len(history) |->
          Message(history[i].role,
                  IF i = Len(history) /\ history[i].role = "user"
                  THEN enrichMessageWithURLContent(history[i].content, scraped)
                  ELSE history[i].content)]

\* GetModel
GetModel == currentModel

\* The request body of Chat and of ChatStreamWithModel: the model, the
\* system prompt followed by the messages, the stream flag
ChatRequest(model, msgs, stream) ==
    [Model |-> model, Stream |-> stream,
     Messages |-> <<Message("system", SystemPrompt)>> \o msgs]

\* SendMessageStream's convModel: the conversation's model when it has one,
\* else the global one
StreamConvModel == IF convModel # "" THEN convModel ELSE GetModel

\* ChatStreamWithModel's useModel
UseModel(model) == IF model = "" THEN GetModel ELSE model

\* The verdict of Chat's check of the last message, Nil when it is not run
InputVerdict(msgs) ==
    IF Len(msgs) > 0 /\ msgs[Len(msgs)].Role = "user"
    THEN CheckInput(filters, msgs[Len(msgs)].Content)
    ELSE Nil

\* Whether Chat returns the verdict instead of calling the server
InputBlocked(msgs) == InputVerdict(msgs) # Nil /\ InputVerdict(msgs).Blocked

\* time.Duration(1<<uint(attempt-1)) * time.Second, in seconds
RECURSIVE Pow2(_)
Pow2(n) == IF n = 0 THEN 1 ELSE 2 * Pow2(n - 1)

\* A backoff that doubles one attempt early: 2s, 4s, 8s
BackoffOffByOne(att) == Pow2(att)

Backoff(att) == Pow2(att - 1)

\* What Chat returns
Ret(response, verdict, err) ==
    [response |-> response, filterResult |-> verdict, err |-> err]

\* The error Chat returns when its loop ends with lastErr set
LoopError(err) == err

Row_ai(role, content, filtered, reason) ==
    [role |-> role, content |-> content, filtered |-> filtered, filterReason |-> reason]

\* A handler that stores the enriched text
StoredEnriched(content, scraped) == enrichMessageWithURLContent(content, scraped)

\* The content SendMessage gives CreateAIMessage for the user's row: the
\* sanitised text, as it was before enrichment
StoredContent(content, scraped) == content

\* SendMessage after Chat has returned ret: the rows written and the answer
AfterChat(history, content, ret) ==
    /\ chatRet' = ret
    /\ pc' = "idle"
    /\ IF ret.err # Nil
       THEN /\ reply' = [kind |-> "error", text |-> <<>>, filtered |-> FALSE]
            /\ messages' = history
            /\ UNCHANGED <<violations, touched>>
       ELSE IF ret.filterResult # Nil /\ ret.filterResult.Blocked
       THEN /\ messages' = Append(history,
                  Row_ai("assistant", HandlerRefusal, 1, ret.filterResult.FilterName))
            /\ violations' = Append(violations,
                  [FilterID |-> ret.filterResult.FilterID, content |-> content,
                   action |-> ret.filterResult.Action])
            /\ reply' = [kind |-> "response", text |-> HandlerRefusal, filtered |-> TRUE]
            /\ UNCHANGED touched
       ELSE /\ messages' = Append(history, Row_ai("assistant", ret.response, 0, <<>>))
            /\ touched' = touched + 1
            /\ reply' = [kind |-> "response", text |-> ret.response, filtered |-> FALSE]
            /\ UNCHANGED violations

\* AIHandler.SendMessage up to Chat's first request: validation, the user's
\* row, the history, Chat's input check and the entry into the retry loop
SendMessage(form, scraped) ==
    /\ UNCHANGED <<streamVars, lockVars, availVars, modelVars, turnVars, wireVars,
                   sideVars>>
    /\ pc = "idle"
    /\ posted' = form
    /\ turn' = turn + 1
    /\ cancelled' = FALSE
    /\ attempt' = 0
    /\ lastErr' = Nil
    /\ waits' = <<>>
    /\ answers' = <<>>
    /\ LET content == SanitizeForDisplay(TrimSpace(form))
           history == Append(messages,
                         Row_ai("user", StoredContent(content, scraped), 0, <<>>))
           msgs == BuildMessages(history, knowledge, scraped)
       IN  IF Rejected(TrimSpace(form))
           THEN /\ reply' = [kind |-> "error", text |-> <<>>, filtered |-> FALSE]
                /\ pc' = "idle"
                /\ UNCHANGED <<messages, violations, touched, chatMessages,
                               curContent, chatRet, lastCheck, blockedInputs>>
           ELSE /\ curContent' = content
                /\ chatMessages' = msgs
                /\ lastCheck' = IF Len(msgs) > 0 /\ msgs[Len(msgs)].Role = "user"
                                THEN [direction |-> "input",
                                      content |-> msgs[Len(msgs)].Content,
                                      result |-> InputVerdict(msgs)]
                                ELSE lastCheck
                /\ blockedInputs' = IF InputBlocked(msgs)
                                    THEN blockedInputs \cup {content}
                                    ELSE blockedInputs
                /\ IF InputBlocked(msgs)
                   THEN AfterChat(history, content, Ret(<<>>, InputVerdict(msgs), Nil))
                   ELSE IF attempt' < cfgRetries
                   THEN /\ pc' = "send"
                        /\ messages' = history
                        /\ UNCHANGED <<violations, touched, chatRet, reply>>
                   ELSE \* the loop body never runs: resp is nil at
                        \* "defer resp.Body.Close()"
                        /\ pc' = "idle"
                        /\ messages' = history
                        /\ reply' = [kind |-> "panic", text |-> <<>>, filtered |-> FALSE]
                        /\ UNCHANGED <<violations, touched, chatRet>>
    /\ UNCHANGED <<ruleVars, cfgVars, available, requests>>

\* The caller goes away while its request is served: r.Context() is done
CancelRequest ==
    /\ UNCHANGED <<streamVars, auxVars>>
    /\ pc \in {"send", "inflight", "backoff"}
    /\ ~cancelled
    /\ cancelled' = TRUE
    /\ UNCHANGED <<ruleVars, lastCheck, convVars, cfgVars, callVars,
                   available, turn, requests, chatRet, reply, blockedInputs>>

\* The end of one failed iteration: attempt++ and the loop condition
NextAttempt(err) ==
    /\ lastErr' = err
    /\ attempt' = attempt + 1
    /\ IF attempt' < cfgRetries
       THEN /\ pc' = "backoff"
            /\ UNCHANGED <<convVars, chatRet, reply>>
       ELSE AfterChat(messages, curContent, Ret(<<>>, Nil, LoopError(err)))

\* client.Do: the request goes out unless the context is already done
ChatDo ==
    /\ UNCHANGED <<streamVars, lockVars, modelVars, turnVars, wireVars, inputVars, sideVars,
                   now, probes, vpc, vloc, vret, marks>>
    /\ pc = "send"
    /\ IF cancelled
       THEN /\ available' = FALSE
            /\ lastCheckAt' = Time(now)
            /\ NextAttempt(ErrConnectCancelled)
            /\ UNCHANGED <<requests, waits, chatMessages, curContent, answers>>
       ELSE /\ requests' = Append(requests,
                  [turn |-> turn, body |-> ChatRequest(GetModel, chatMessages, FALSE)])
            /\ pc' = "inflight"
            /\ UNCHANGED <<available, lastCheckAt, attempt, lastErr, waits, chatMessages,
                           curContent, answers, convVars, chatRet, reply>>
    /\ UNCHANGED <<ruleVars, lastCheck, cfgVars, turn, cancelled, blockedInputs>>

\* A backoff that only waits for the timer and never looks at the context
SelectCaseTimerOnly(ctxDone) == "timer"

\* The select of the backoff, blocked on ctx.Done() and time.After(backoff):
\* the case that runs
SelectCase(ctxDone) == IF ctxDone THEN "done" ELSE "timer"

\* The select of the backoff: the timer fires before the context is done
ChatBackoffElapsed ==
    /\ UNCHANGED <<streamVars, auxVars>>
    /\ pc = "backoff"
    /\ SelectCase(cancelled) = "timer"
    /\ waits' = Append(waits, Backoff(attempt))
    /\ pc' = "send"
    /\ UNCHANGED <<ruleVars, lastCheck, convVars, cfgVars, attempt, lastErr,
                   chatMessages, curContent, answers, chatVars>>

\* The select of the backoff: the context is done, Chat returns ctx.Err()
ChatBackoffCancelled ==
    /\ UNCHANGED <<streamVars, auxVars>>
    /\ pc = "backoff"
    /\ SelectCase(cancelled) = "done"
    /\ AfterChat(messages, curContent, Ret(<<>>, Nil, ErrContext))
    /\ UNCHANGED <<ruleVars, lastCheck, cfgVars, attempt, lastErr, chatMessages,
                   curContent, waits, answers, available, turn, cancelled,
                   requests, blockedInputs>>

\* A retry rule that retries every status other than 200, client errors too
ShouldRetryAll(status) == status # StatusOK

\* A status other than 200 is retried when it is a server error
ShouldRetry(status) == status >= 500

\* A Chat that hands the verdict over together with the model's text
ChatReturnRaw(response, verdict) ==
    Ret(response, IF verdict # Nil /\ verdict.Blocked THEN verdict ELSE Nil, Nil)

\* What Chat returns for a decoded response and the verdict of its output
\* check: the refusal and the verdict when it blocks, else the text alone
ChatReturn(response, verdict) ==
    IF verdict # Nil /\ verdict.Blocked
    THEN Ret(ChatRefusal, verdict, Nil)
    ELSE Ret(response, Nil, Nil)

\* A client that takes a server error for the server being away
MarkAfterAnyFailure(up) ==
    CASE up.kind = "connect" -> "unavailable"
      [] up.status >= 500 -> "unavailable"
      [] up.status = StatusOK /\ up.decodes -> "available"
      [] OTHER -> "none"

\* What an attempt's outcome does to the cached availability:
\* markUnavailable when Do returns an error, markAvailable once a 200 has
\* been decoded, nothing for any other answer
MarkAfter(up) ==
    CASE up.kind = "connect" -> "unavailable"
      [] up.status = StatusOK /\ up.decodes -> "available"
      [] OTHER -> "none"

\* client.Do returns: an error, or a response with its status
ChatRespond(up) ==
    /\ UNCHANGED <<streamVars, lockVars, modelVars, turnVars, wireVars, inputVars, sideVars,
                   now, probes, vpc, vloc, vret, marks>>
    /\ pc = "inflight"
    /\ answers' = Append(answers, up)
    /\ available' = CASE MarkAfter(up) = "unavailable" -> FALSE
                      [] MarkAfter(up) = "available" -> TRUE
                      [] OTHER -> available
    /\ lastCheckAt' = IF MarkAfter(up) = "none" THEN lastCheckAt ELSE Time(now)
    /\ IF up.kind = "connect"
       THEN /\ NextAttempt(ErrConnect)
            /\ UNCHANGED lastCheck
       ELSE IF up.status = StatusOK
       THEN \* break with lastErr = nil; decode, markAvailable, CheckOutput
            /\ lastErr' = Nil
            /\ UNCHANGED attempt
            /\ IF ~up.decodes
               THEN /\ AfterChat(messages, curContent, Ret(<<>>, Nil, ErrDecode))
                    /\ UNCHANGED lastCheck
               ELSE /\ lastCheck' = [direction |-> "output", content |-> up.content,
                                     result |-> CheckOutput(filters, up.content)]
                    /\ AfterChat(messages, curContent,
                                 ChatReturn(up.content, lastCheck'.result))
       ELSE IF ShouldRetry(up.status)
       THEN /\ NextAttempt(ErrStatus(up.status))
            /\ UNCHANGED lastCheck
       ELSE \* a client error: break with lastErr set
            /\ lastErr' = ErrStatus(up.status)
            /\ UNCHANGED <<attempt, lastCheck>>
            /\ AfterChat(messages, curContent, Ret(<<>>, Nil, LoopError(lastErr')))
    /\ UNCHANGED <<ruleVars, cfgVars, chatMessages, curContent, waits, turn,
                   cancelled, requests, blockedInputs>>

\* Rule sets (in creation order) the chat runs against
ChatRuleSets ==
    { << Row(<<"s", "q", "l">>, "regex", <<"D", "T">>, "block", "input", "critical"),
         Row(<<"c", "a", "r", "d">>, "regex", <<"d", "d">>, "block", "both", "low") >>,
      << Row(<<"s", "q", "l">>, "regex", <<"D", "T">>, "block", "input", "critical"),
         Row(<<"c", "a", "r", "d">>, "regex", <<"d", "d">>, "block", "both", "low"),
         Row(<<"p", "a", "y">>, "keyword", <<"S", ",", " ", "w">>, "warn", "both", "medium") >> }

\* The table after CreateFilter ran for each form of the sequence
TableOf(forms) ==
    { [ID |-> i, Name |-> forms[i].Name, FilterType |-> forms[i].FilterType,
       Pattern |-> forms[i].Pattern, Action |-> forms[i].Action,
       AppliesTo |-> forms[i].AppliesTo, Severity |-> forms[i].Severity,
       IsActive |-> 1] : i \in 1..Len(forms) }

InitChat ==
    /\ \E forms \in ChatRuleSets :
          /\ store = TableOf(forms)
          /\ nextFilterID = Len(forms) + 1
    /\ filters = ReloadFilters(store)
    /\ lastCheck = Nil
    /\ knowledge \in { <<>>, << <<"a">> >> }
    /\ cfgRetries \in 0..MaxRetries
    /\ currentModel = DefaultModel
    /\ convModel \in {"", OtherModel}
    /\ Quiescent

\* One request served, under every configured attempt count
NextChat ==
    \/ turn = 0 /\ \E form \in UserContents, scraped \in Scrapes :
                       SendMessage(form, scraped)
    \/ CancelRequest
    \/ ChatDo
    \/ ChatBackoffElapsed
    \/ ChatBackoffCancelled
    \/ \E up \in Upstream : ChatRespond(up)

SpecChat == InitChat /\ [][NextChat]_vars

\* A conversation of several turns against a server tried once per turn
InitConv ==
    /\ InitChat
    /\ cfgRetries = 1

NextConv ==
    \/ turn < MaxTurns /\ \E form \in UserContents, scraped \in Scrapes :
                              SendMessage(form, scraped)
    \/ CancelRequest
    \/ ChatDo
    \/ \E up \in Upstream : ChatRespond(up)

SpecConv == InitConv /\ [][NextConv]_vars

\* ========================================================== the stream
\* Lines the inference server may write to a streaming response
StreamLines ==
    { [kind |-> "empty", content |-> <<>>, done |-> FALSE],
      [kind |-> "invalid", content |-> <<>>, done |-> FALSE],
      [kind |-> "chunk", content |-> <<"o">>, done |-> FALSE],
      [kind |-> "chunk", content |-> <<"d">>, done |-> FALSE],
      [kind |-> "chunk", content |-> <<"d">>, done |-> TRUE] }

\* What scanner.Err() may hold when Scan returns false
ErrRead == Err("read", {"io"})
ScanErrors == {Nil, ErrRead}

Frame(kind, text) == [kind |-> kind, text |-> text]

Heartbeats == Cardinality({i \in 1..Len(frames) : frames[i].kind = "heartbeat"})

\* The messages SendMessageStream hands to ChatStreamWithModel: the knowledge
\* message when there is one, then the history as stored
BuildStreamMessages(history, snippets) ==
    (IF getKnowledgeContext(snippets) # <<>>
     THEN <<Message("system", getKnowledgeContext(snippets))>> ELSE <<>>)
    \o [i \in 1..Len(history) |-> Message(history[i].role, history[i].content)]

\* A handler that starts the producer without announcing the stream
NoStartFrame(model) == <<>>

\* What the handler writes before it starts the producer: the start frame,
\* with the conversation's id and the model the stream runs with
StartFrames(model) == <<[kind |-> "start", text |-> <<>>, model |-> model]>>

\* AIHandler.SendMessageStream up to the start of the pump loop: validation,
\* the user's row, the history, the start frame and the producer goroutine
SendMessageStream(form) ==
    /\ UNCHANGED <<lockVars, availVars, modelVars, turnVars, wireVars,
                   sideVars>>
    /\ pc = "idle" /\ spc = "none"
    /\ posted' = form
    /\ turn' = turn + 1
    /\ LET content == SanitizeForDisplay(TrimSpace(form))
           history == Append(messages, Row_ai("user", content, 0, <<>>))
       IN  IF Rejected(TrimSpace(form))
           THEN /\ reply' = [kind |-> "error", text |-> <<>>, filtered |-> FALSE]
                /\ UNCHANGED <<messages, curContent, chatMessages, pc, streamVars>>
           ELSE /\ messages' = history
                /\ curContent' = content
                /\ chatMessages' = BuildStreamMessages(history, knowledge)
                /\ frames' = StartFrames(StreamConvModel)
                /\ fullResponse' = <<>> /\ svcResponse' = <<>>
                /\ streamErr' = Nil /\ filterResult' = Nil
                /\ streamDone' = FALSE /\ gotFirstChunk' = FALSE
                /\ streamCancelled' = FALSE /\ linesRead' = 0
                /\ spc' = "start" /\ ppc' = "loop" /\ pc' = "stream"
                /\ UNCHANGED reply
    /\ cancelled' = FALSE
    /\ UNCHANGED <<ruleVars, lastCheck, violations, touched, cfgVars, attempt,
                   lastErr, waits, answers, available, requests, chatRet,
                   blockedInputs>>

\* The producer returns from ChatStreamWithModel: the handler's variables are
\* assigned and the deferred close(streamDone) runs
ProducerReturns(verdict, err) ==
    /\ filterResult' = verdict
    /\ streamErr' = err
    /\ streamDone' = TRUE
    /\ spc' = "returned"

\* The end of ChatStreamWithModel: the output check of the whole text
ProducerFinishes(final, scanErr) ==
    /\ lastCheck' = [direction |-> "output", content |-> final,
                     result |-> CheckOutput(filters, final)]
    /\ IF lastCheck'.result # Nil /\ lastCheck'.result.Blocked
       THEN ProducerReturns(lastCheck'.result, Nil)
       ELSE ProducerReturns(Nil, scanErr)

\* A request built without the context: nothing of it ends when ctx is done
ReadIgnoresContext(ctxDone) == FALSE

\* The request carries ctx (http.NewRequestWithContext): once ctx is done,
\* Do and every read of the response body return the context's error
ReadAborts(ctxDone) == ctxDone

\* ChatStreamWithModel up to streamClient.Do: the input check and the request
ProducerStart ==
    /\ UNCHANGED auxVars
    /\ spc = "start"
    /\ lastCheck' = IF Len(chatMessages) > 0
                       /\ chatMessages[Len(chatMessages)].Role = "user"
                    THEN [direction |-> "input",
                          content |-> chatMessages[Len(chatMessages)].Content,
                          result |-> InputVerdict(chatMessages)]
                    ELSE lastCheck
    /\ IF InputBlocked(chatMessages)
       THEN /\ ProducerReturns(InputVerdict(chatMessages), Nil)
            /\ blockedInputs' = blockedInputs \cup {curContent}
            /\ UNCHANGED requests
       ELSE IF ReadAborts(streamCancelled)
       THEN /\ ProducerReturns(Nil, ErrConnectCancelled)
            /\ UNCHANGED <<requests, blockedInputs>>
       ELSE /\ requests' = Append(requests,
                  [turn |-> turn,
                   body |-> ChatRequest(UseModel(StreamConvModel), chatMessages, TRUE)])
            /\ spc' = "connecting"
            /\ UNCHANGED <<filterResult, streamErr, streamDone, blockedInputs>>
    /\ UNCHANGED <<ruleVars, convVars, cfgVars, callVars, available, turn,
                   cancelled, chatRet, reply, frames, ppc, gotFirstChunk,
                   fullResponse, svcResponse, streamCancelled, linesRead>>

\* A streaming call with the loop of Chat around Do: a connection error or
\* a 5xx answer sends the request again
StreamRetriesLikeChat(up, sent) ==
    /\ sent < cfgRetries
    /\ up.kind = "connect" \/ up.status >= 500

\* ChatStreamWithModel has no loop around streamClient.Do: whatever the
\* answer, the request is not sent again
StreamRetries(up, sent) == FALSE

\* streamClient.Do returns: an error, a status other than 200, or the stream
ProducerConnect(up) ==
    /\ UNCHANGED auxVars
    /\ spc = "connecting"
    /\ IF StreamRetries(up, Len(requests))
       THEN /\ requests' = Append(requests, requests[Len(requests)])
            /\ UNCHANGED <<spc, filterResult, streamErr, streamDone>>
       ELSE /\ UNCHANGED requests
            /\ IF up.kind = "connect" THEN ProducerReturns(Nil, ErrConnect)
               ELSE IF up.status # StatusOK
               THEN ProducerReturns(Nil, ErrStatus(up.status))
               ELSE /\ spc' = "reading"
                    /\ UNCHANGED <<filterResult, streamErr, streamDone>>
    /\ UNCHANGED <<ruleVars, lastCheck, convVars, cfgVars, callVars, available,
                   turn, cancelled, chatRet, reply, blockedInputs,
                   frames, ppc, gotFirstChunk, fullResponse, svcResponse,
                   streamCancelled, linesRead>>

\* A loop that takes every line for a chunk
DecodesAll(line) == TRUE

\* A loop that skips empty lines only and takes what json.Unmarshal rejected
\* for a chunk without content
DecodesNonEmpty(line) == line.kind # "empty"

\* The line is not empty and json.Unmarshal accepts it as a StreamChunk
Decodes(line) == line.kind = "chunk"

\* A loop that leaves the loop on done before it uses the chunk's content
DoneChunkDropped(chunk) == IF chunk.done THEN <<>> ELSE chunk.content

\* content := chunk.Message.Content
ChunkContent(chunk) == chunk.content

\* One iteration of the scanner loop: an empty or undecodable line is
\* skipped; a chunk is accumulated and handed to onChunk, which sets the flag,
\* accumulates and writes the token frame; a chunk with done ends the loop
ProducerLine(line) ==
    /\ UNCHANGED <<lockVars, availVars, modelVars, turnVars, inputVars, sideVars>>
    /\ spc = "reading"
    /\ linesRead < MaxLines
    /\ linesRead' = linesRead + 1
    /\ arrived' = Append(arrived, line)
    /\ IF ~Decodes(line)
       THEN UNCHANGED <<svcResponse, gotFirstChunk, fullResponse, frames, spc,
                        filterResult, streamErr, streamDone, lastCheck>>
       ELSE /\ svcResponse' = svcResponse \o ChunkContent(line)
            /\ gotFirstChunk' = TRUE
            /\ fullResponse' = fullResponse \o ChunkContent(line)
            /\ frames' = Append(frames, Frame("token", ChunkContent(line)))
            /\ IF line.done
               THEN ProducerFinishes(svcResponse', Nil)
               ELSE UNCHANGED <<spc, filterResult, streamErr, streamDone, lastCheck>>
    /\ UNCHANGED <<ruleVars, convVars, cfgVars, callVars, chatVars, ppc,
                   streamCancelled>>

\* scanner.Scan returns false: the end of the body or a read error
ProducerScanEnds(scanErr) ==
    /\ UNCHANGED auxVars
    /\ spc = "reading"
    /\ ProducerFinishes(svcResponse, scanErr)
    /\ UNCHANGED <<ruleVars, convVars, cfgVars, callVars, chatVars, frames, ppc,
                   gotFirstChunk, fullResponse, svcResponse, streamCancelled,
                   linesRead>>

\* streamCtx is done while the request is in flight or while Scan waits for
\* the body: Do returns the error, or Scan returns false with it and the
\* code after the loop runs
ProducerAborted ==
    /\ UNCHANGED auxVars
    /\ spc \in {"connecting", "reading"}
    /\ ReadAborts(streamCancelled)
    /\ IF spc = "connecting"
       THEN /\ ProducerReturns(Nil, ErrConnectCancelled)
            /\ UNCHANGED lastCheck
       ELSE ProducerFinishes(svcResponse, ErrContext)
    /\ UNCHANGED <<ruleVars, convVars, cfgVars, callVars, chatVars, frames, ppc,
                   gotFirstChunk, fullResponse, svcResponse, streamCancelled,
                   linesRead>>

\* What the pump's unsynchronised read of gotFirstChunk may return: the last
\* value written, or the initial one (the producer's write is not ordered
\* before the read)
FlagReads == {gotFirstChunk, FALSE}

\* The ticker case of the pump's select, up to the test of the flag; a tick
\* that reads true changes nothing
PumpTick(seen) ==
    /\ UNCHANGED auxVars
    /\ ppc = "loop"
    /\ Heartbeats < MaxBeats
    /\ seen \in FlagReads
    /\ ~seen
    /\ ppc' = "beat"
    /\ UNCHANGED <<ruleVars, lastCheck, convVars, cfgVars, callVars, chatVars,
                   frames, spc, gotFirstChunk, fullResponse, svcResponse,
                   streamErr, filterResult, streamDone, streamCancelled, linesRead>>

\* The heartbeat frame of a tick that read false
PumpHeartbeat ==
    /\ UNCHANGED auxVars
    /\ ppc = "beat"
    /\ frames' = Append(frames, Frame("heartbeat", <<>>))
    /\ ppc' = "loop"
    /\ UNCHANGED <<ruleVars, lastCheck, convVars, cfgVars, callVars, chatVars,
                   spc, gotFirstChunk, fullResponse, svcResponse, streamErr,
                   filterResult, streamDone, streamCancelled, linesRead>>

\* The consumer disconnects: r.Context() is done
ClientDisconnects ==
    /\ UNCHANGED auxVars
    /\ ppc \in {"loop", "beat"}
    /\ ~cancelled
    /\ cancelled' = TRUE
    /\ UNCHANGED <<ruleVars, lastCheck, convVars, cfgVars, callVars, available,
                   turn, requests, chatRet, reply, blockedInputs, streamVars>>

\* A handler that keeps what was streamed when the caller goes away
SavedPartial(partial) == <<Row_ai("assistant", partial, 0, <<>>)>>

\* The rows the handler stores on its way out through the r.Context().Done()
\* case: none
SavedOnDisconnect(partial) == <<>>

\* The r.Context().Done() case of the pump's select: cancelStream and return
PumpCancelled ==
    /\ UNCHANGED auxVars
    /\ ppc = "loop"
    /\ cancelled
    /\ streamCancelled' = TRUE
    /\ ppc' = "returned"
    /\ pc' = "idle"
    /\ messages' = messages \o SavedOnDisconnect(fullResponse)
    /\ UNCHANGED <<ruleVars, lastCheck, violations, touched, cfgVars, attempt, lastErr,
                   chatMessages, curContent, waits, answers, chatVars, frames,
                   spc, gotFirstChunk, fullResponse, svcResponse, streamErr,
                   filterResult, streamDone, linesRead>>

\* A handler that stores the streamed text whatever the verdict
StreamRowRaw(verdict, full) == Row_ai("assistant", full, 0, <<>>)

\* The assistant row streamComplete stores: the refusal, flagged and with the
\* rule's name, for a blocked verdict; else the accumulated text
StreamRow(verdict, full) ==
    IF verdict # Nil /\ verdict.Blocked
    THEN Row_ai("assistant", HandlerRefusal, 1, verdict.FilterName)
    ELSE Row_ai("assistant", full, 0, <<>>)

\* A handler that does not look at streamErr
CompleteBranchIgnoresError(err, verdict) ==
    IF verdict # Nil /\ verdict.Blocked THEN "filtered" ELSE "done"

\* The branch the code at streamComplete takes: the error is tested first
\* and ends the handler, then the verdict
CompleteBranch(err, verdict) ==
    IF err # Nil THEN "error"
    ELSE IF verdict # Nil /\ verdict.Blocked THEN "filtered"
    ELSE "done"

\* The streamDone case of the pump's select and the code at streamComplete
PumpComplete ==
    /\ UNCHANGED auxVars
    /\ ppc = "loop"
    /\ streamDone
    /\ ppc' = "returned"
    /\ pc' = "idle"
    /\ streamCancelled' = TRUE
    /\ IF CompleteBranch(streamErr, filterResult) = "error"
       THEN /\ frames' = Append(frames, Frame("error", <<>>))
            /\ UNCHANGED convVars
       ELSE IF CompleteBranch(streamErr, filterResult) = "filtered"
       THEN /\ messages' = Append(messages, StreamRow(filterResult, fullResponse))
            /\ violations' = Append(violations,
                  [FilterID |-> filterResult.FilterID, content |-> curContent,
                   action |-> filterResult.Action])
            /\ touched' = touched + 1
            /\ frames' = frames \o <<Frame("filtered", <<>>), Frame("done", <<>>)>>
       ELSE /\ messages' = Append(messages, StreamRow(filterResult, fullResponse))
            /\ touched' = touched + 1
            /\ frames' = Append(frames, Frame("done", <<>>))
            /\ UNCHANGED violations
    /\ UNCHANGED <<ruleVars, lastCheck, cfgVars, attempt, lastErr, chatMessages,
                   curContent, waits, answers, chatVars, spc, gotFirstChunk,
                   fullResponse, svcResponse, streamErr, filterResult,
                   streamDone, linesRead>>

InitStream ==
    /\ InitChat
    /\ knowledge = <<>>
    /\ cfgRetries = DefaultRetries

\* One streaming request served
NextStream ==
    \/ turn = 0 /\ \E form \in UserContents : SendMessageStream(form)
    \/ ProducerStart
    \/ \E up \in Upstream : ProducerConnect(up)
    \/ \E line \in StreamLines : ProducerLine(line)
    \/ \E scanErr \in ScanErrors : ProducerScanEnds(scanErr)
    \/ ProducerAborted
    \/ \E seen \in BOOLEAN : PumpTick(seen)
    \/ PumpHeartbeat
    \/ ClientDisconnects
    \/ PumpCancelled
    \/ PumpComplete

SpecStream == InitStream /\ [][NextStream]_vars

\* The goroutines of the handler keep running: the producer takes its next
\* step when it does not depend on the server, and the pump's select runs a
\* case that is ready.  Nothing is assumed of the server (a line, the end of
\* the body or the answer to the request may never come).
SpecStreamLive ==
    /\ SpecStream
    /\ WF_vars(ProducerStart)
    /\ WF_vars(ProducerAborted)
    /\ WF_vars(PumpHeartbeat)
    /\ WF_vars(PumpCancelled)

\* ============================================== requests of both kinds
\* A conversation whose turns come through either handler, the streamed one
\* at most once; a request is received while no other is being served
InitIntake == InitConv

NextIntake ==
    \/ /\ turn < MaxTurns /\ spc \in {"none", "returned"}
       /\ \E form \in UserContents \cup {LongContent}, scraped \in Scrapes :
              SendMessage(form, scraped)
    \/ /\ turn < MaxTurns
       /\ \E form \in UserContents \cup {LongContent} : SendMessageStream(form)
    \/ ChatDo
    \/ \E up \in Upstream : ChatRespond(up)
    \/ ProducerStart
    \/ \E up \in Upstream : ProducerConnect(up)
    \/ \E line \in StreamLines : ProducerLine(line)
    \/ \E scanErr \in ScanErrors : ProducerScanEnds(scanErr)
    \/ PumpComplete

SpecIntake == InitIntake /\ [][NextIntake]_vars

\* ===================================== both modes against one server
\* Response texts of a server that answers every request with the same text
Scripts == { <<"d">>, <<"o", "d">>, <<"o", "o", "d">>, <<"d", "d">> }

\* How much of the response text the lines read so far have carried
RECURSIVE Carried(_)
Carried(lines) ==
    IF lines = <<>> THEN 0
    ELSE (IF Head(lines).kind = "chunk" THEN Len(Head(lines).content) ELSE 0)
         + Carried(Tail(lines))

\* The line is one the server may write next when it streams the text it
\* answered the synchronous request with: the next piece of that text, with
\* done on the piece that completes it (empty and malformed lines may come
\* at any point)
FollowsScript(line) ==
    LET text == answers[Len(answers)].content
        rest == SubSeq(text, Carried(arrived) + 1, Len(text))
    IN  line.kind = "chunk" =>
            /\ HasPrefix(rest, line.content)
            /\ line.done = (Len(line.content) = Len(rest))

\* The server answers the synchronous request with its text
ServerAnswers(text) ==
    ChatRespond([kind |-> "status", status |-> StatusOK, decodes |-> TRUE,
                 content |-> text])

\* Once Chat has returned, the messages it was given go to the streaming
\* call with the handler's onChunk
StreamSameInput ==
    /\ pc = "idle" /\ turn = 1 /\ answers # <<>> /\ spc = "none"
    /\ spc' = "start"
    /\ UNCHANGED <<ruleVars, lastCheck, convVars, cfgVars, callVars, chatVars,
                   frames, ppc, gotFirstChunk, fullResponse, svcResponse,
                   streamErr, filterResult, streamDone, streamCancelled,
                   linesRead, auxVars>>

\* The server accepts the streaming request
ServerStreams ==
    \E up \in Upstream : up.status = StatusOK /\ ProducerConnect(up)

\* The server writes its next line
ServerLine(line) == spc = "reading" /\ FollowsScript(line) /\ ProducerLine(line)

InitModes == InitConv

NextModes ==
    \/ turn = 0 /\ \E form \in UserContents, scraped \in Scrapes :
                       SendMessage(form, scraped)
    \/ ChatDo
    \/ \E text \in Scripts : ServerAnswers(text)
    \/ StreamSameInput
    \/ ProducerStart
    \/ ServerStreams
    \/ \E line \in StreamLines : ServerLine(line)

SpecModes == InitModes /\ [][NextModes]_vars

\* ============================================ reload against readers
\* A read lock that lets readers in whatever the writer does
RLockNeverBlocked(mu) == FALSE

\* sync.RWMutex: RLock waits while a writer holds w (from the moment Lock has
\* taken it, before the readers have drained)
RLockBlocked(mu) == mu.w # 0

\* The rows of the table the reload runs against, in creation order
ReloadRules ==
    << Row(<<"s", "q", "l">>, "regex", <<"D", "T">>, "block", "input", "critical"),
       Row(<<"b", "a", "d">>, "regex", <<"(", "x">>, "block", "both", "high"),
       Row(<<"p", "a", "y">>, "keyword", <<"S", ",", " ", "w">>, "warn", "both", "medium") >>

\* Contents the concurrent checks are called with
ReloadContents == { <<"D", "T", "s">> }

\* A loop that keeps every row
SkipsNothing(f) == FALSE

\* ReloadFilters' loop skips this row (regexp.Compile failed)
SkipsRow(f) == f.FilterType = "regex" /\ ~RegexCompiles(f.Pattern)

\* ToggleFilter up to its UPDATE: GetSecurityFilterByID and the new status
AdminToggleRead(a, filterID) ==
    /\ apc[a] = "idle"
    /\ opsDone < MaxOps
    /\ \E filter \in store :
          /\ filter.ID = filterID
          /\ aloc' = [aloc EXCEPT ![a] =
                [NoLocals EXCEPT !.op = "toggle", !.id = filterID,
                     !.newStatus = IF filter.IsActive = 1 THEN 0 ELSE 1]]
    /\ apc' = [apc EXCEPT ![a] = "write"]
    /\ opsDone' = opsDone + 1
    /\ UNCHANGED <<ruleVars, lastCheck, convVars, cfgVars, callVars, chatVars,
                   streamVars,
                   availVars, modelVars, turnVars, wireVars, inputVars, sideVars, rw, reloadRet, cpc, cargs, installed,
                   retired>>

\* DeleteFilter up to its DELETE: GetSecurityFilterByID
AdminDeleteRead(a, filterID) ==
    /\ apc[a] = "idle"
    /\ opsDone < MaxOps
    /\ \E filter \in store : filter.ID = filterID
    /\ aloc' = [aloc EXCEPT ![a] =
          [NoLocals EXCEPT !.op = "delete", !.id = filterID]]
    /\ apc' = [apc EXCEPT ![a] = "write"]
    /\ opsDone' = opsDone + 1
    /\ UNCHANGED <<ruleVars, lastCheck, convVars, cfgVars, callVars, chatVars,
                   streamVars,
                   availVars, modelVars, turnVars, wireVars, inputVars, sideVars, rw, reloadRet, cpc, cargs, installed,
                   retired>>

\* The rows of the table with the id
RowsOf(table, filterID) == {r \in table : r.ID = filterID}

\* The UPDATE of ToggleFilter or the DELETE of DeleteFilter; the handler goes
\* on to ReloadFilters
AdminWrite(a) ==
    /\ apc[a] = "write"
    /\ LET id == aloc[a].id
           rows == RowsOf(store, id)
           switchedOff == aloc[a].op = "delete" \/ aloc[a].newStatus = 0
       IN  /\ store' = IF aloc[a].op = "delete" THEN store \ rows
                       ELSE (store \ rows) \cup
                            {[r EXCEPT !.IsActive = aloc[a].newStatus] : r \in rows}
           /\ aloc' = [b \in Admins |->
                 IF b = a
                 THEN [NoLocals EXCEPT !.off = IF switchedOff THEN {id} ELSE {}]
                 ELSE IF switchedOff THEN aloc[b]
                 ELSE [aloc[b] EXCEPT !.off = aloc[b].off \ {id}]]
           /\ retired' = IF switchedOff THEN retired ELSE retired \ {id}
    /\ apc' = [apc EXCEPT ![a] = "lock"]
    /\ UNCHANGED <<nextFilterID, filters, lastCheck, convVars, cfgVars, callVars,
                   chatVars, streamVars,
                   availVars, modelVars, turnVars, wireVars, inputVars, sideVars, rw, reloadRet, cpc, cargs, installed,
                   opsDone>>

\* filtersMutex.Lock(), first half: the writer takes w; new readers wait
ReloadLock(a) ==
    /\ apc[a] = "lock"
    /\ rw.w = 0
    /\ rw' = [rw EXCEPT !.w = a]
    /\ apc' = [apc EXCEPT ![a] = "drain"]
    /\ UNCHANGED <<ruleVars, lastCheck, convVars, cfgVars, callVars, chatVars,
                   streamVars,
                   availVars, modelVars, turnVars, wireVars, inputVars, sideVars, aloc, reloadRet, cpc, cargs, installed,
                   retired, opsDone>>

\* filtersMutex.Lock(), second half: the readers inside have left
ReloadLocked(a) ==
    /\ apc[a] = "drain"
    /\ rw.readers = 0
    /\ apc' = [apc EXCEPT ![a] = "query"]
    /\ UNCHANGED <<ruleVars, lastCheck, convVars, cfgVars, callVars, chatVars,
                   streamVars,
                   availVars, modelVars, turnVars, wireVars, inputVars, sideVars, rw, aloc, reloadRet, cpc, cargs, installed,
                   retired, opsDone>>

\* A ReloadFilters that empties s.filters before it queries the store
ClearedBeforeQuery(list) == <<>>

\* s.filters when the query failed: the assignment of the new slice comes
\* after the error return, the list is the one of before the call
KeptOnError(list) == list

\* GetActiveSecurityFilters inside the lock: on an error ReloadFilters
\* returns it (the deferred Unlock runs) and the list stays as it was
ReloadQuery(a, ok) ==
    /\ apc[a] = "query"
    /\ filters' = IF ok THEN filters ELSE KeptOnError(filters)
    /\ IF ok
       THEN /\ aloc' = [aloc EXCEPT ![a].dbFilters = GetActiveSecurityFilters(store)]
            /\ apc' = [apc EXCEPT ![a] = "make"]
            /\ UNCHANGED <<rw, reloadRet>>
       ELSE /\ reloadRet' = [reloadRet EXCEPT ![a] = Err("query", {"sql"})]
            /\ rw' = [rw EXCEPT !.w = 0]
            /\ apc' = [apc EXCEPT ![a] = "idle"]
            /\ aloc' = [aloc EXCEPT ![a] = NoLocals]
    /\ UNCHANGED <<store, nextFilterID, lastCheck, convVars, cfgVars, callVars,
                   chatVars, streamVars, availVars, modelVars, turnVars,
                   wireVars, inputVars, sideVars, cpc, cargs, installed, retired, opsDone>>

\* s.filters = make([]SecurityFilter, 0, len(dbFilters))
ReloadMake(a) ==
    /\ apc[a] = "make"
    /\ filters' = <<>>
    /\ apc' = [apc EXCEPT ![a] = "loop"]
    /\ UNCHANGED <<store, nextFilterID, lastCheck, convVars, cfgVars, callVars,
                   chatVars, streamVars,
                   availVars, modelVars, turnVars, wireVars, inputVars, sideVars, rw, aloc, reloadRet, cpc, cargs,
                   installed, retired, opsDone>>

\* One iteration of ReloadFilters' loop over dbFilters
ReloadRow(a) ==
    /\ apc[a] = "loop"
    /\ aloc[a].i < Len(aloc[a].dbFilters)
    /\ LET f == aloc[a].dbFilters[aloc[a].i + 1]
       IN  filters' = IF SkipsRow(f) THEN filters
                      ELSE Append(filters, BuildFilter(f))
    /\ aloc' = [aloc EXCEPT ![a].i = aloc[a].i + 1]
    /\ UNCHANGED <<store, nextFilterID, lastCheck, convVars, cfgVars, callVars,
                   chatVars, streamVars,
                   availVars, modelVars, turnVars, wireVars, inputVars, sideVars, rw, apc, reloadRet, cpc, cargs,
                   installed, retired, opsDone>>

\* The end of ReloadFilters: return nil, the deferred Unlock
ReloadReturn(a) ==
    /\ apc[a] = "loop"
    /\ aloc[a].i = Len(aloc[a].dbFilters)
    /\ reloadRet' = [reloadRet EXCEPT ![a] = Nil]
    /\ rw' = [rw EXCEPT !.w = 0]
    /\ installed' = filters
    /\ retired' = retired \cup aloc[a].off
    /\ aloc' = [aloc EXCEPT ![a] = NoLocals]
    /\ apc' = [apc EXCEPT ![a] = "idle"]
    /\ UNCHANGED <<ruleVars, lastCheck, convVars, cfgVars, callVars, chatVars,
                   streamVars,
                   availVars, modelVars, turnVars, wireVars, inputVars, sideVars, cpc, cargs, opsDone>>

\* A goroutine calls CheckInput, CheckOutput or GetFilters
ReaderCall(c, call) ==
    /\ cpc[c] = "idle"
    /\ cargs' = [cargs EXCEPT ![c] = call]
    /\ cpc' = [cpc EXCEPT ![c] = "rlock"]
    /\ UNCHANGED <<ruleVars, lastCheck, convVars, cfgVars, callVars, chatVars,
                   streamVars,
                   availVars, modelVars, turnVars, wireVars, inputVars, sideVars, rw, apc, aloc, reloadRet, installed,
                   retired, opsDone>>

\* filtersMutex.RLock()
ReaderRLock(c) ==
    /\ cpc[c] = "rlock"
    /\ ~RLockBlocked(rw)
    /\ rw' = [rw EXCEPT !.readers = rw.readers + 1]
    /\ cpc' = [cpc EXCEPT ![c] = "read"]
    /\ UNCHANGED <<ruleVars, lastCheck, convVars, cfgVars, callVars, chatVars,
                   streamVars,
                   availVars, modelVars, turnVars, wireVars, inputVars, sideVars, apc, aloc, reloadRet, cargs, installed,
                   retired, opsDone>>

\* The body of checkContent or GetFilters over s.filters, and the deferred
\* RUnlock
ReaderRead(c) ==
    /\ cpc[c] = "read"
    /\ lastCheck' = IF cargs[c].fn = "GetFilters" THEN lastCheck
                    ELSE [direction |-> cargs[c].direction,
                          content |-> cargs[c].content,
                          result |-> checkContent(filters, cargs[c].content,
                                                  cargs[c].direction)]
    /\ rw' = [rw EXCEPT !.readers = rw.readers - 1]
    /\ cpc' = [cpc EXCEPT ![c] = "idle"]
    /\ cargs' = [cargs EXCEPT ![c] = Nil]
    /\ UNCHANGED <<ruleVars, convVars, cfgVars, callVars, chatVars, streamVars,
                   availVars, modelVars, turnVars, wireVars, inputVars, sideVars,
                   apc, aloc, reloadRet, installed, retired, opsDone>>

\* The calls a reader may make
ReaderCalls ==
    { [fn |-> "GetFilters", direction |-> "none", content |-> <<>>] }
    \cup { [fn |-> "check", direction |-> "input", content |-> t] :
              t \in ReloadContents }

InitReload ==
    /\ store = TableOf(ReloadRules)
    /\ nextFilterID = Len(ReloadRules) + 1
    /\ filters = ReloadFilters(store)
    /\ lastCheck = Nil
    /\ knowledge = <<>> /\ cfgRetries = DefaultRetries
    /\ currentModel = DefaultModel /\ convModel = ""
    /\ Quiescent

NextReload ==
    \/ \E a \in Admins, id \in 1..MaxFilters : AdminToggleRead(a, id)
    \/ \E a \in Admins, id \in 1..MaxFilters : AdminDeleteRead(a, id)
    \/ \E a \in Admins : AdminWrite(a)
    \/ \E a \in Admins : ReloadLock(a)
    \/ \E a \in Admins : ReloadLocked(a)
    \/ \E a \in Admins, ok \in BOOLEAN : ReloadQuery(a, ok)
    \/ \E a \in Admins : ReloadMake(a)
    \/ \E a \in Admins : ReloadRow(a)
    \/ \E a \in Admins : ReloadReturn(a)
    \/ \E c \in Readers, call \in ReaderCalls : ReaderCall(c, call)
    \/ \E c \in Readers : ReaderRLock(c)
    \/ \E c \in Readers : ReaderRead(c)

SpecReload == InitReload /\ [][NextReload]_vars

\* ================================================ the availability cache
\* Seconds the clock may advance by between two steps: just short of the
\* period, and the period
TickSteps == {CheckPeriod - 1, CheckPeriod}

\* An IsAvailable that probes whatever the age of the cached value
NeverFresh(t) == FALSE

\* time.Since(lastCheck) < o.checkPeriod; since the zero time the duration
\* saturates at its maximum
Fresh(t) == ~t.zero /\ now - t.at < CheckPeriod

\* Time passes
Tick(d) ==
    /\ now + d <= MaxClock
    /\ now' = now + d
    /\ UNCHANGED <<ruleVars, lastCheck, convVars, cfgVars, callVars, chatVars,
                   streamVars, lockVars,
                   modelVars, turnVars, wireVars, inputVars, sideVars, lastCheckAt, probes, vpc, vloc, vret,
                   marks>>

\* IsAvailable up to the test of the cached value: the two fields are read
\* under the read lock; a fresh value is returned as it is
IsAvailableRead(c) ==
    /\ vpc[c] = "idle"
    /\ IF Fresh(lastCheckAt)
       THEN /\ vret' = [vret EXCEPT ![c] = [available |-> available, probed |-> FALSE]]
            /\ UNCHANGED <<vpc, vloc>>
       ELSE /\ vloc' = [vloc EXCEPT ![c] =
                  [lastCheck |-> lastCheckAt, available |-> available]]
            /\ vpc' = [vpc EXCEPT ![c] = "ping"]
            /\ UNCHANGED vret
    /\ UNCHANGED <<ruleVars, lastCheck, convVars, cfgVars, callVars, chatVars,
                   streamVars, lockVars,
                   modelVars, turnVars, wireVars, inputVars, sideVars, now, lastCheckAt, probes, marks>>

\* pingOllama: GET /api/tags; true when the server answers 200
PingOllama(c, up) ==
    /\ vpc[c] = "ping"
    /\ probes' = probes + 1
    /\ vloc' = [vloc EXCEPT ![c].available =
                   (up.kind # "connect" /\ up.status = StatusOK)]
    /\ vpc' = [vpc EXCEPT ![c] = "store"]
    /\ UNCHANGED <<ruleVars, lastCheck, convVars, cfgVars, callVars, chatVars,
                   streamVars, lockVars,
                   modelVars, turnVars, wireVars, inputVars, sideVars, now, lastCheckAt, vret, marks>>

\* The end of IsAvailable and of checkAvailability: the result and
\* time.Now() are stored under the write lock
StoreAvailability(c) ==
    /\ vpc[c] = "store"
    /\ available' = vloc[c].available
    /\ lastCheckAt' = Time(now)
    /\ vpc' = [vpc EXCEPT ![c] = IF c = 0 THEN "done" ELSE "idle"]
    /\ vloc' = [vloc EXCEPT ![c] = NoProbe]
    /\ vret' = IF c = 0 THEN vret
               ELSE [vret EXCEPT ![c] =
                        [available |-> vloc[c].available, probed |-> TRUE]]
    /\ UNCHANGED <<ruleVars, lastCheck, convVars, cfgVars, callVars, turn,
                   cancelled, requests, chatRet, reply, blockedInputs,
                   streamVars, lockVars,
                   modelVars, turnVars, wireVars, inputVars, sideVars, now, probes, marks>>

\* markAvailable / markUnavailable, as Chat calls them
Mark(flag) ==
    /\ marks < MaxMarks
    /\ marks' = marks + 1
    /\ available' = flag
    /\ lastCheckAt' = Time(now)
    /\ UNCHANGED <<ruleVars, lastCheck, convVars, cfgVars, callVars, turn,
                   cancelled, requests, chatRet, reply, blockedInputs,
                   streamVars, lockVars,
                   modelVars, turnVars, wireVars, inputVars, sideVars, now, probes, vpc, vloc, vret>>

InitAvail ==
    /\ store = {}
    /\ nextFilterID = 1
    /\ filters = ReloadFilters(store)
    /\ lastCheck = Nil
    /\ knowledge = <<>> /\ cfgRetries = DefaultRetries
    /\ currentModel = DefaultModel /\ convModel = ""
    /\ Quiescent

NextAvail ==
    \/ \E d \in TickSteps : Tick(d)
    \/ \E c \in Callers : IsAvailableRead(c)
    \/ \E c \in Probers, up \in Upstream : PingOllama(c, up)
    \/ \E c \in Probers : StoreAvailability(c)
    \/ \E flag \in BOOLEAN : Mark(flag)

SpecAvail == InitAvail /\ [][NextAvail]_vars

\* ============================ the cache as Chat and IsAvailable share it
\* One request served with two attempts configured while the clock runs and
\* one goroutine calls IsAvailable; the goroutine NewOllamaService started has not finished
InitMarks ==
    /\ InitChat
    /\ cfgRetries = 2
    /\ knowledge = <<>>
    /\ convModel = ""

NextMarks ==
    \/ turn = 0 /\ \E form \in {<<"h", "i", " ">>}, scraped \in Scrapes :
                       SendMessage(form, scraped)
    \/ CancelRequest
    \/ ChatDo
    \/ ChatBackoffElapsed
    \/ ChatBackoffCancelled
    \/ \E up \in Upstream : ChatRespond(up)
    \/ \E d \in TickSteps : Tick(d)
    \/ IsAvailableRead(1)
    \/ \E c \in {0, 1}, up \in Upstream : PingOllama(c, up)
    \/ \E c \in {0, 1} : StoreAvailability(c)

SpecMarks == InitMarks /\ [][NextMarks]_vars

\* =================================== requests of one conversation at once
\* Chat with one attempt configured, from the answer to its return value
ChatOnce(up) ==
    IF up.kind = "connect" THEN Ret(<<>>, Nil, ErrConnect)
    ELSE IF up.status # StatusOK THEN Ret(<<>>, Nil, ErrStatus(up.status))
    ELSE IF ~up.decodes THEN Ret(<<>>, Nil, ErrDecode)
    ELSE IF CheckOutput(filters, up.content) # Nil
            /\ CheckOutput(filters, up.content).Blocked
    THEN Ret(ChatRefusal, CheckOutput(filters, up.content), Nil)
    ELSE Ret(up.content, Nil, Nil)

\* SendMessage up to CreateAIMessage: validation and the user's row
HandlerStore(h, form) ==
    /\ hpc[h] = "idle"
    /\ ~Rejected(TrimSpace(form))
    /\ LET content == SanitizeForDisplay(TrimSpace(form))
       IN  /\ messages' = Append(messages, Row_ai("user", content, 0, <<>>))
           /\ hcontent' = [hcontent EXCEPT ![h] = content]
    /\ hpc' = [hpc EXCEPT ![h] = "stored"]
    /\ UNCHANGED <<ruleVars, lastCheck, violations, touched, cfgVars, callVars,
                   chatVars, streamVars, lockVars, availVars, modelVars,
                   wireVars, inputVars, sideVars>>

\* SendMessage from GetConversationMessages to Chat's request: the history
\* as the table holds it now, the message list, Chat's input check
HandlerSend(h, scraped) ==
    /\ hpc[h] = "stored"
    /\ LET msgs == BuildMessages(messages, knowledge, scraped)
       IN  /\ lastCheck' = IF Len(msgs) > 0 /\ msgs[Len(msgs)].Role = "user"
                           THEN [direction |-> "input",
                                 content |-> msgs[Len(msgs)].Content,
                                 result |-> InputVerdict(msgs)]
                           ELSE lastCheck
           /\ IF InputBlocked(msgs)
              THEN /\ AfterChat(messages, hcontent[h],
                                Ret(<<>>, InputVerdict(msgs), Nil))
                   /\ blockedInputs' = blockedInputs \cup {hcontent[h]}
                   /\ hpc' = [hpc EXCEPT ![h] = "done"]
                   /\ UNCHANGED requests
              ELSE /\ requests' = Append(requests,
                         [turn |-> h, body |-> ChatRequest(GetModel, msgs, FALSE)])
                   /\ hpc' = [hpc EXCEPT ![h] = "sent"]
                   /\ UNCHANGED <<convVars, pc, chatRet, reply, blockedInputs>>
    /\ UNCHANGED <<ruleVars, cfgVars, attempt, lastErr, chatMessages, curContent,
                   waits, answers, available, turn, cancelled, streamVars,
                   lockVars, availVars, modelVars, hcontent, wireVars, inputVars, sideVars>>

\* The rest of SendMessage: Chat returns and the answer is stored
HandlerReply(h, up) ==
    /\ hpc[h] = "sent"
    /\ AfterChat(messages, hcontent[h], ChatOnce(up))
    /\ hpc' = [hpc EXCEPT ![h] = "done"]
    /\ UNCHANGED <<ruleVars, lastCheck, cfgVars, attempt, lastErr, chatMessages,
                   curContent, waits, answers, available, turn, cancelled,
                   requests, blockedInputs, streamVars, lockVars, availVars,
                   modelVars, hcontent, wireVars, inputVars, sideVars>>

InitTurns ==
    /\ InitChat
    /\ cfgRetries = 1
    /\ convModel = ""

NextTurns ==
    \/ \E h \in Handlers, form \in UserContents : HandlerStore(h, form)
    \/ \E h \in Handlers, scraped \in Scrapes : HandlerSend(h, scraped)
    \/ \E h \in Handlers, up \in Upstream : HandlerReply(h, up)

SpecTurns == InitTurns /\ [][NextTurns]_vars

\* ================================================================ claims
\* The severity scale of the rule set: critical > high > medium > low
SeverityRank(sev) ==
    CASE sev = "critical" -> 4 [] sev = "high" -> 3
      [] sev = "medium" -> 2 [] sev = "low" -> 1

\* The filters of a list that apply to the direction and match the content
Matching(list, content, direction) ==
    {i \in 1..Len(list) :
        Applies(list[i], direction) /\ MatchedText(list[i], content) # Nil}

\* C2: after a reload the installed list is in severity-descending
\* (critical > high > medium > low), name-ascending order, and the verdict of
\* a check names a rule of the highest severity among the rules that match.
C2_SeverityOrder ==
    /\ \A i, j \in 1..Len(filters) :
          i < j =>
            \/ SeverityRank(filters[i].Severity) > SeverityRank(filters[j].Severity)
            \/ /\ filters[i].Severity = filters[j].Severity
               /\ BytesLess(filters[i].Name, filters[j].Name)
    /\ lastCheck # Nil =>
          \A i \in Matching(filters, lastCheck.content, lastCheck.direction) :
              /\ lastCheck.result # Nil
              /\ SeverityRank(lastCheck.result.Severity)
                    >= SeverityRank(filters[i].Severity)

\* Whether content matches an active block rule that applies to the direction
MatchesBlockRule(content, direction) ==
    \E i \in Matching(filters, content, direction) : filters[i].Action = "block"

\* The last message of a request body
LastMessage(body) == body.Messages[Len(body.Messages)]

\* C1: a check of a text that matches an active block rule applying to the
\* checked direction returns blocked=true, whatever warn or log rules match
\* as well; and no request is sent to the inference server whose last
\* message is a user message matching an input block rule.
C1_BlockRuleBlocks ==
    /\ lastCheck # Nil /\ MatchesBlockRule(lastCheck.content, lastCheck.direction)
          => lastCheck.result # Nil /\ lastCheck.result.Blocked
    /\ \A i \in 1..Len(requests) :
          LastMessage(requests[i].body).Role = "user"
            => ~MatchesBlockRule(LastMessage(requests[i].body).Content, "input")

\* The frames that end a stream
Terminal == {"done", "filtered", "error"}

TerminalFrames == {i \in 1..Len(frames) : frames[i].kind \in Terminal}

\* C3: a stream that emitted its start frame emits at most one terminal
\* frame (done, filtered or error), never a done frame together with a
\* filtered frame, and no frame after a terminal frame.
C3_OneTerminalFrame ==
    /\ Cardinality(TerminalFrames) <= 1
    /\ ~ /\ \E i \in 1..Len(frames) : frames[i].kind = "filtered"
         /\ \E i \in 1..Len(frames) : frames[i].kind = "done"
    /\ \A i \in TerminalFrames : i = Len(frames)

\* C4: in every interleaving of the producer and the pump, no heartbeat
\* frame is written after the first token frame of the stream.
C4_NoHeartbeatAfterToken ==
    \A i, j \in 1..Len(frames) :
        (i < j /\ frames[i].kind = "token") => frames[j].kind # "heartbeat"

\* The output check of the streamed text has blocked it
OutputBlocked ==
    /\ spc = "returned"
    /\ filterResult # Nil /\ filterResult.Blocked
    /\ lastCheck # Nil /\ lastCheck.direction = "output"

\* C5: model output that the output check blocks is not delivered: no token
\* frame carrying text of a response that ends up blocked has been written
\* to the consumer.
C5_BlockedOutputNotDelivered ==
    OutputBlocked => \A i \in 1..Len(frames) : frames[i].kind # "token"

\* C6: no request body sent to the inference server holds a user message
\* whose content the input check blocked, in the blocked turn or later.
C6_BlockedTurnNeverSent ==
    \A i \in 1..Len(requests) :
        \A k \in 1..Len(requests[i].body.Messages) :
            ~ /\ requests[i].body.Messages[k].Role = "user"
              /\ requests[i].body.Messages[k].Content \in blockedInputs

\* The requests of the Chat call in progress (or of the last one)
CallRequests == {i \in 1..Len(requests) : requests[i].turn = turn}

\* The Chat call has returned after the server answered at least once
CallOver == pc = "idle" /\ answers # <<>>

Statuses == [i \in 1..Len(answers) |-> answers[i].status]

\* C7: with 3 attempts configured, answers 500, 500, 200 (a decodable body)
\* end the call without error after exactly three requests and the two waits
\* 1s, 2s; a first answer with a 4xx status ends the call with an error after
\* exactly one request and no wait.
C7_RetryOn5xxNotOn4xx ==
    /\ ( /\ CallOver /\ cfgRetries = 3
         /\ Statuses = <<500, 500, StatusOK>> /\ answers[3].decodes )
          => /\ chatRet.err = Nil
             /\ Cardinality(CallRequests) = 3
             /\ waits = <<1, 2>>
    /\ ( answers # <<>> /\ answers[1].status >= 400 /\ answers[1].status < 500 )
          => /\ pc = "idle"
             /\ chatRet.err # Nil
             /\ Len(answers) = 1
             /\ Cardinality(CallRequests) = 1
             /\ waits = <<>>

C7_Witness ==
    /\ CallOver /\ cfgRetries = 3
    /\ Statuses = <<500, 500, StatusOK>> /\ answers[3].decodes
    /\ chatRet.err = Nil /\ waits = <<1, 2>>

\* An answer that makes the attempt fail transiently
Transient(up) == up.kind = "connect" \/ up.status >= 500

\* C8: with N >= 1 attempts configured, when every attempt fails with a
\* connection error or a 5xx status and the caller does not cancel, exactly
\* N requests are made, the wait before attempt k (k = 2..N) is 2^(k-2)
\* seconds, nothing is waited after the last attempt and Chat returns an
\* error.
C8_ExhaustedAfterNAttempts ==
    ( /\ CallOver /\ ~cancelled /\ cfgRetries >= 1
      /\ \A i \in 1..Len(answers) : Transient(answers[i]) )
      => /\ Len(answers) = cfgRetries
         /\ Cardinality(CallRequests) = cfgRetries
         /\ waits = [k \in 1..(cfgRetries - 1) |-> Pow2(k - 1)]
         /\ chatRet.err # Nil

C8_Witness ==
    /\ CallOver /\ ~cancelled /\ cfgRetries = DefaultRetries + 1
    /\ \A i \in 1..Len(answers) : Transient(answers[i])
    /\ waits = <<1, 2, 4>>

\* C9: when Chat has used up its attempts on transient failures, the error
\* it returns is the upstream-unavailable error: errors.Is finds
\* ErrOllamaUnavailable or ErrMaxRetriesReached in it.
C9_ExhaustionIsUnavailable ==
    ( /\ CallOver /\ ~cancelled /\ Len(answers) = cfgRetries
      /\ \A i \in 1..Len(answers) : Transient(answers[i]) )
      => /\ chatRet.err # Nil
         /\ chatRet.err.is \cap {"ErrOllamaUnavailable", "ErrMaxRetriesReached"} # {}

\* C10: once the context is done while Chat waits in a backoff, the next step
\* of the call returns the context's error: no wait is waited out and no
\* request goes to the inference server.
C10_CancelDuringBackoff ==
    [][ (pc = "backoff" /\ cancelled)
          => /\ pc' = "idle"
             /\ chatRet'.err = ErrContext
             /\ requests' = requests
             /\ waits' = waits ]_vars

C10_Witness ==
    /\ pc = "idle" /\ cancelled /\ chatRet # Nil /\ chatRet.err = ErrContext
    /\ Len(answers) >= 1 /\ Len(answers) < cfgRetries
    /\ Cardinality(CallRequests) = Len(answers)

\* C11: a Check never has to wait for a Reload: no reader stands at RLock
\* while the lock refuses it, whether the Reload is fetching the rules or
\* rebuilding the list.
C11_CheckNeverWaits ==
    \A c \in Readers : cpc[c] = "rlock" => ~RLockBlocked(rw)

\* C12: in every interleaving a reader inside checkContent or GetFilters
\* reads a complete list, the one the last completed Reload (or the
\* construction) installed; no Reload is emptying or filling the list while
\* a reader is inside.
C12_ReadersSeeCompleteList ==
    \A c \in Readers :
        cpc[c] = "read" =>
            /\ filters = installed
            /\ \A a \in Admins : apc[a] \notin {"make", "loop"}

C12_Witness ==
    /\ \E c \in Readers : cpc[c] = "read"
    /\ \E a \in Admins : apc[a] = "drain"
    /\ installed # ReloadFilters(TableOf(ReloadRules))
    /\ installed # <<>>

\* C13: once a rule was switched off or deleted in the table and a Reload
\* begun after that has completed, every Check returns a verdict that does
\* not name the rule (until the rule is switched on again).
C13_RetiredRuleNotNamed ==
    [][ \A c \in Readers :
          (cpc[c] = "read" /\ cpc'[c] = "idle" /\ cargs[c].fn = "check")
            => /\ lastCheck'.result = checkContent(filters, cargs[c].content,
                                                   cargs[c].direction)
               /\ lastCheck'.result # Nil
                    => lastCheck'.result.FilterID \notin retired ]_vars

C13_Witness ==
    /\ 3 \in retired
    /\ \A a \in Admins : apc[a] = "idle"
    /\ lastCheck # Nil /\ lastCheck.direction = "input"
    /\ lastCheck.result # Nil /\ lastCheck.result.FilterID = 1

\* The rows of a query result that compile, in the order of the result
Compiling(rows) ==
    SelectSeq(rows, LAMBDA r : r.FilterType # "regex" \/ RegexCompiles(r.Pattern))

\* C14: a Reload whose rows hold regex rules that do not compile returns nil
\* and leaves as the list exactly the other rows, in the order of the query.
C14_BadRegexSkipped ==
    [][ \A a \in Admins :
          (apc[a] = "loop" /\ apc'[a] = "idle")
            => /\ reloadRet'[a] = Nil
               /\ Len(filters') = Len(Compiling(aloc[a].dbFilters))
               /\ \A i \in 1..Len(filters') :
                     /\ filters'[i].ID = Compiling(aloc[a].dbFilters)[i].ID
                     /\ filters'[i].Name = Compiling(aloc[a].dbFilters)[i].Name
                     /\ filters'[i].Pattern = Compiling(aloc[a].dbFilters)[i].Pattern ]_vars

C14_Witness ==
    /\ \A a \in Admins : apc[a] = "idle" /\ reloadRet[a] = Nil
    /\ opsDone >= 1
    /\ \E r \in store : r.ID = 2 /\ r.IsActive = 1
    /\ filters = installed
    /\ Len(filters) = 1 /\ filters[1].ID = 1

\* C15: a call of IsAvailable made less than 30 s after the last update of
\* the cache returns the cached flag without a probe; a call made 30 s or
\* more after it (or before any update) sends exactly one probe and stores
\* its result with the time of the store.
C15_CacheWithinPeriod ==
    [][ \A c \in Callers :
          /\ (vpc[c] = "idle" /\ (vpc'[c] # "idle" \/ vret'[c] # vret[c]))
                => IF ~lastCheckAt.zero /\ now - lastCheckAt.at < CheckPeriod
                   THEN /\ vpc'[c] = "idle"
                        /\ vret'[c] = [available |-> available, probed |-> FALSE]
                        /\ probes' = probes
                   ELSE /\ vpc'[c] = "ping"
                        /\ vret'[c] = vret[c]
                        /\ probes' = probes
          /\ (vpc[c] = "ping" /\ vpc'[c] # "ping")
                => vpc'[c] = "store" /\ probes' = probes + 1
          /\ (vpc[c] = "store" /\ vpc'[c] # "store")
                => /\ vpc'[c] = "idle"
                   /\ probes' = probes
                   /\ available' = vret'[c].available
                   /\ vret'[c].probed
                   /\ lastCheckAt' = Time(now) ]_vars

C15_Witness ==
    /\ \A c \in Probers : vpc[c] \in {"idle", "done"}
    /\ vret[1] # Nil /\ ~vret[1].probed
    /\ vret[2] # Nil /\ vret[2].probed
    /\ probes = 2 /\ marks = 0
    /\ lastCheckAt = Time(CheckPeriod) /\ now = CheckPeriod

\* C16: when several IsAvailable calls run after the period has lapsed, at
\* most one of them probes for that lapse: no two calls that read the same
\* outdated timestamp are both between their test of the cache and their
\* store.
C16_OneProbePerLapse ==
    \A c, d \in Callers :
        ( /\ c # d
          /\ vpc[c] \in {"ping", "store"} /\ vpc[d] \in {"ping", "store"}
          /\ ~vloc[c].lastCheck.zero )
          => vloc[c].lastCheck # vloc[d].lastCheck

\* C17: every request made for a conversation that has a model of its own
\* names that model in its body, on the synchronous and on the streaming
\* path; the global model is named only when the conversation has none.
C17_OverrideWins ==
    \A i \in 1..Len(requests) :
        requests[i].body.Model =
            IF convModel # "" THEN convModel ELSE currentModel

\* The messages of a request body after the operating prompt and the
\* knowledge message
Conversation(body) ==
    SubSeq(body.Messages, IF Len(knowledge) > 0 THEN 3 ELSE 2, Len(body.Messages))

\* C18: the message list of a request is the operating prompt, the knowledge
\* message if and only if there is a snippet, the prior messages of the
\* conversation in their order, and the request's own user turn as the last
\* element; nothing is dropped, duplicated or reordered.
C18_MessageListOrder ==
    \A i \in 1..Len(requests) :
        LET body == requests[i].body
            conv == Conversation(body)
        IN  /\ body.Messages[1] = Message("system", SystemPrompt)
            /\ Len(knowledge) > 0 =>
                  body.Messages[2] = Message("system", getKnowledgeContext(knowledge))
            /\ \A k \in 1..Len(conv) : conv[k].Role # "system"
            /\ Len(conv) >= 1 /\ Len(conv) <= Len(messages)
            /\ \A k \in 1..(Len(conv) - 1) :
                  conv[k] = Message(messages[k].role, messages[k].content)
            /\ conv[Len(conv)].Role = "user"
            /\ HasPrefix(conv[Len(conv)].Content, hcontent[requests[i].turn])

\* The texts a user's row may hold: what was submitted, trimmed and sanitised
Submitted == {SanitizeForDisplay(TrimSpace(form)) : form \in UserContents}

\* C19: URL enrichment reaches only the message list sent to the model:
\* every stored user message holds the submitted text after sanitising,
\* never the appended page text, and a request only appends rows to the
\* stored messages, changing none.
C19_EnrichmentNotStored ==
    [][ /\ Len(messages') >= Len(messages)
        /\ SubSeq(messages', 1, Len(messages)) = messages
        /\ \A i \in 1..Len(messages') :
              messages'[i].role = "user" => messages'[i].content \in Submitted ]_vars

C19_Witness ==
    /\ turn = MaxTurns /\ pc = "idle"
    /\ Len(messages) >= 3
    /\ messages[1].role = "user" /\ extractURLs(messages[1].content) # <<>>
    /\ \E i \in 1..Len(requests) :
          /\ requests[i].turn = 1
          /\ \E scraped \in Scrapes :
                LastMessage(requests[i].body).Content
                   = enrichMessageWithURLContent(messages[1].content, scraped)
          /\ LastMessage(requests[i].body).Content # messages[1].content

\* The contents of the lines of a sequence that are chunks, up to and
\* including the first chunk with done
RECURSIVE Deltas(_)
Deltas(lines) ==
    IF lines = <<>> THEN <<>>
    ELSE IF Head(lines).kind # "chunk" THEN Deltas(Tail(lines))
    ELSE IF Head(lines).done THEN <<Head(lines).content>>
    ELSE <<Head(lines).content>> \o Deltas(Tail(lines))

\* The texts of the token frames written so far, in order
TokenTexts ==
    LET tokens == SelectSeq(frames, LAMBDA f : f.kind = "token")
    IN  [i \in 1..Len(tokens) |-> tokens[i].text]

\* C20: within one stream the deltas handed to onChunk, and so the token
\* frames written, are the contents of the decoded lines in the order of
\* their arrival, one per line, ending with the first line that has done.
C20_ChunksInOrder ==
    /\ TokenTexts = Deltas(arrived)
    /\ fullResponse = Concat(Deltas(arrived))
    /\ (\E i \in 1..Len(arrived) : arrived[i].kind = "chunk" /\ arrived[i].done)
          => spc = "returned"

C20_Witness ==
    /\ Len(arrived) = MaxLines
    /\ arrived[1].kind = "invalid"
    /\ arrived[2] = [kind |-> "chunk", content |-> <<"o">>, done |-> FALSE]
    /\ arrived[3] = [kind |-> "chunk", content |-> <<"d">>, done |-> TRUE]
    /\ TokenTexts = << <<"o">>, <<"d">> >>
    /\ \E i \in 1..Len(frames) : frames[i].kind = "heartbeat"

\* C21: when the server answers both modes with the same text for the same
\* messages and no rule blocks, the deltas given to onChunk, concatenated in
\* order, are the text Chat returned.
C21_StreamEqualsChat ==
    ( /\ turn = 1 /\ answers # <<>>
      /\ chatRet # Nil /\ chatRet.err = Nil /\ chatRet.filterResult = Nil
      /\ spc = "returned" /\ streamErr = Nil /\ filterResult = Nil )
    => /\ Concat(TokenTexts) = chatRet.response
       /\ fullResponse = chatRet.response

C21_Witness ==
    /\ chatRet # Nil /\ chatRet.err = Nil /\ chatRet.filterResult = Nil
    /\ chatRet.response = <<"o", "d">>
    /\ spc = "returned" /\ streamErr = Nil /\ filterResult = Nil
    /\ Len(arrived) = 3 /\ arrived[2].kind = "invalid"
    /\ TokenTexts = << <<"o">>, <<"d">> >>

\* C22: a line of the stream that is empty or is not valid JSON is skipped:
\* no onChunk call (no frame), nothing accumulated, and the loop goes on
\* reading; a well-formed line, before or after it, is delivered and
\* accumulated.
C22_BadLineSkipped ==
    [][ arrived' # arrived =>
          LET line == arrived'[Len(arrived')]
          IN  IF line.kind \in {"empty", "invalid"}
              THEN /\ frames' = frames
                   /\ fullResponse' = fullResponse
                   /\ svcResponse' = svcResponse
                   /\ spc' = "reading"
                   /\ streamDone' = streamDone /\ streamErr' = streamErr
              ELSE /\ frames' = Append(frames, Frame("token", line.content))
                   /\ fullResponse' = fullResponse \o line.content
                   /\ svcResponse' = svcResponse \o line.content ]_vars

C22_Witness ==
    /\ Len(arrived) = 3
    /\ arrived[1] = [kind |-> "chunk", content |-> <<"o">>, done |-> FALSE]
    /\ arrived[2].kind = "invalid"
    /\ arrived[3] = [kind |-> "chunk", content |-> <<"d">>, done |-> FALSE]
    /\ spc = "reading"
    /\ fullResponse = <<"o", "d">>

\* Whether a terminal frame (error, filtered or done) has been written
Terminated == \E i \in 1..Len(frames) : frames[i].kind \in {"error", "filtered", "done"}

\* C23: when the pump loop has exited because the caller disconnected (the
\* handler returned without reaching streamComplete), the conversation holds
\* the user's message and nothing else of the request: no assistant message,
\* no violation, no touch, however many chunks were streamed.
C23_DisconnectPersistsNothing ==
    (ppc = "returned" /\ ~Terminated)
    => /\ messages = <<Row_ai("user", curContent, 0, <<>>)>>
       /\ violations = <<>>
       /\ touched = 0

C23_Witness ==
    /\ ppc = "returned" /\ ~Terminated /\ cancelled
    /\ Len(TokenTexts) = 2
    /\ fullResponse = <<"o", "d">>
    /\ Len(messages) = 1

\* C24: if the caller disconnects while the producer's streaming call is
\* running, the producer's context is eventually cancelled and the producer
\* eventually returns, whatever the server still has to send.
C24_DisconnectStopsProducer ==
    (cancelled /\ spc \in {"start", "connecting", "reading"})
        ~> (streamCancelled /\ spc = "returned")

C24_Witness ==
    /\ cancelled /\ streamCancelled
    /\ ppc = "returned" /\ ~Terminated
    /\ spc = "returned" /\ streamErr = ErrContext
    /\ Len(arrived) = 1 /\ arrived[1].kind = "chunk" /\ ~arrived[1].done

\* The assistant rows of the conversation, in order
AssistantRows == SelectSeq(messages, LAMBDA m : m.role = "assistant")

\* C25: a streaming request that completed without error (the done frame was
\* written) stored exactly one assistant message: for a blocked verdict the
\* fixed refusal with filtered = 1 and the rule's name, with exactly one
\* violation recorded; otherwise the concatenation of the streamed chunks
\* with filtered = 0 and no violation.
C25_OneAssistantRow ==
    (\E i \in 1..Len(frames) : frames[i].kind = "done")
    => /\ Len(AssistantRows) = 1
       /\ IF filterResult # Nil /\ filterResult.Blocked
          THEN /\ AssistantRows[1].content = <<"n", "o", "p">>
               /\ AssistantRows[1].filtered = 1
               /\ AssistantRows[1].filterReason = filterResult.FilterName
               /\ Len(violations) = 1
               /\ violations[1].FilterID = filterResult.FilterID
          ELSE /\ AssistantRows[1].content = Concat(TokenTexts)
               /\ AssistantRows[1].filtered = 0
               /\ AssistantRows[1].filterReason = <<>>
               /\ violations = <<>>

C25_Witness ==
    /\ \E i \in 1..Len(frames) : frames[i].kind = "done"
    /\ filterResult # Nil /\ filterResult.Blocked
    /\ filterResult.FilterName = <<"c", "a", "r", "d">>
    /\ Len(TokenTexts) = 2
    /\ Len(AssistantRows) = 1 /\ Len(violations) = 1

\* C26: every step that appends an assistant message to the conversation,
\* the model's text or the refusal of a blocked verdict, in the synchronous
\* and in the streaming path, also touches the conversation.
C26_AppendTouches ==
    [][ Len(SelectSeq(messages', LAMBDA m : m.role = "assistant")) > Len(AssistantRows)
          => touched' = touched + 1 ]_vars

\* C27: a request whose trimmed content is empty or longer than 4000 is
\* answered with an error before anything else happens: no rule check, no
\* request to the inference server, no row written, no frame, no producer.
C27_InvalidContentRejected ==
    [][ ( /\ turn' = turn + 1
          /\ \/ TrimSpace(posted') = <<>>
             \/ Len(TrimSpace(posted')) > 4000 )
        => /\ reply' # Nil /\ reply'.kind = "error"
           /\ pc' = "idle"
           /\ UNCHANGED <<messages, violations, touched, requests, lastCheck,
                          blockedInputs, frames, spc, ppc>> ]_vars

C27_Witness ==
    /\ turn = 2
    /\ Len(posted) = 4001
    /\ reply # Nil /\ reply.kind = "error"
    /\ Len(messages) = 2 /\ messages[2].role = "assistant"
    /\ Len(requests) = 1

\* C28: an attempt of Chat that fails to connect leaves the flag false with
\* the time of the failure, and an IsAvailable call that finds that entry
\* less than 30 s old returns false without a probe; a decoded successful
\* response leaves the flag true; an answer with a 5xx or 4xx status leaves
\* flag and time as they were.
C28_ChatMarksAvailability ==
    [][ /\ Len(answers') > Len(answers) =>
              LET up == answers'[Len(answers')]
              IN  IF up.kind = "connect"
                  THEN available' = FALSE /\ lastCheckAt' = Time(now)
                  ELSE IF up.status = 200 /\ up.decodes
                  THEN available' = TRUE /\ lastCheckAt' = Time(now)
                  ELSE up.status # 200 => UNCHANGED <<available, lastCheckAt>>
        /\ \A c \in Callers :
              ( /\ vpc[c] = "idle" /\ (vpc'[c] # "idle" \/ vret'[c] # vret[c])
                /\ ~available
                /\ ~lastCheckAt.zero /\ now - lastCheckAt.at < 30 )
              => /\ vpc'[c] = "idle"
                 /\ vret'[c] = [available |-> FALSE, probed |-> FALSE]
                 /\ probes' = probes ]_vars

C28_Witness ==
    /\ turn = 1 /\ pc = "idle"
    /\ Len(answers) = 1 /\ answers[1].kind = "connect"
    /\ vpc[0] = "done" /\ probes = 1
    /\ lastCheckAt = Time(30) /\ now = 59
    /\ vret[1] = [available |-> FALSE, probed |-> FALSE]

\* The first filter of the installed list, in list order, that applies to
\* the direction and matches the content
FirstMatching(content, direction) ==
    filters[CHOOSE i \in Matching(filters, content, direction) :
                \A j \in Matching(filters, content, direction) : i <= j]

\* C29: the verdict of a check names the first matching rule and has
\* blocked = true exactly when that rule's action is block; a warn or log
\* rule still yields a verdict, with blocked = false (the warn reason
\* beginning "Advertencia"); when no rule matches there is no verdict.
C29_VerdictOfFirstMatch ==
    lastCheck # Nil =>
        IF Matching(filters, lastCheck.content, lastCheck.direction) = {}
        THEN lastCheck.result = Nil
        ELSE LET f == FirstMatching(lastCheck.content, lastCheck.direction)
                 v == lastCheck.result
             IN  /\ v # Nil
                 /\ v.FilterID = f.ID /\ v.FilterName = f.Name
                 /\ v.Action = f.Action
                 /\ v.Blocked = (f.Action = "block")
                 /\ f.Action = "warn" => v.Reason = "Advertencia de seguridad: "

C29_Witness ==
    /\ lastCheck # Nil /\ lastCheck.result # Nil
    /\ lastCheck.result.Action = "warn" /\ ~lastCheck.result.Blocked
    /\ Cardinality(Matching(filters, lastCheck.content, lastCheck.direction)) = 2
    /\ \E i \in Matching(filters, lastCheck.content, lastCheck.direction) :
          filters[i].Action = "block"

\* C30: when Chat has decoded a successful response that the output check
\* blocks, it returns the fixed refusal with the verdict and no error; the
\* handler answers and stores its own refusal, flagged, and the model's text
\* is neither answered nor stored.
C30_BlockedOutputWithheld ==
    [][ ( /\ Len(answers') > Len(answers)
          /\ answers'[Len(answers')].status = 200
          /\ answers'[Len(answers')].decodes
          /\ CheckOutput(filters, answers'[Len(answers')].content) # Nil
          /\ CheckOutput(filters, answers'[Len(answers')].content).Blocked )
        => LET raw == answers'[Len(answers')].content
           IN  /\ chatRet' = [response |-> <<"n", "o">>,
                              filterResult |-> CheckOutput(filters, raw),
                              err |-> Nil]
               /\ reply' # Nil /\ reply'.kind = "response" /\ reply'.filtered
               /\ reply'.text = <<"n", "o", "p">>
               /\ Len(messages') = Len(messages) + 1
               /\ messages'[Len(messages')].role = "assistant"
               /\ messages'[Len(messages')].content = <<"n", "o", "p">>
               /\ messages'[Len(messages')].filtered = 1
               /\ \A i \in 1..Len(messages') : messages'[i].content # raw ]_vars

C30_Witness ==
    /\ pc = "idle" /\ chatRet # Nil /\ chatRet.err = Nil
    /\ chatRet.response = <<"n", "o">>
    /\ chatRet.filterResult # Nil /\ chatRet.filterResult.FilterName = <<"c", "a", "r", "d">>
    /\ Len(answers) = 2 /\ answers[2].content = <<"d", "d">>
    /\ Len(messages) = 2 /\ messages[2].filtered = 1

\* C31: in a request that reaches the streaming phase the start frame, which
\* names the model the request is made with, is the first frame written and
\* is written once: every token, heartbeat, filtered, done and error frame
\* comes after it.
C31_StartFrameFirst ==
    ppc # "none" =>
        /\ Len(frames) >= 1
        /\ frames[1].kind = "start"
        /\ frames[1].model = (IF convModel # "" THEN convModel ELSE currentModel)
        /\ \A i \in 2..Len(frames) : frames[i].kind # "start"
        /\ \A i \in 1..Len(requests) : requests[i].body.Model = frames[1].model

C31_Witness ==
    /\ Len(frames) = 5
    /\ frames[1].kind = "start" /\ frames[1].model = OtherModel
    /\ frames[2].kind = "heartbeat"
    /\ frames[3].kind = "token" /\ frames[4].kind = "token"
    /\ frames[5].kind = "done"

\* C33: a check evaluates a rule only when the rule's applies_to is the
\* checked direction or "both": the verdict of an output check never names an
\* input rule, that of an input check never an output rule, even when the
\* rule's pattern matches the text.
C33_DirectionRespected ==
    (lastCheck # Nil /\ lastCheck.result # Nil) =>
        \E i \in 1..Len(filters) :
            /\ filters[i].ID = lastCheck.result.FilterID
            /\ filters[i].AppliesTo \in {"both", lastCheck.direction}

C33_Witness ==
    /\ lastCheck # Nil /\ lastCheck.direction = "output"
    /\ lastCheck.result = Nil
    /\ \E i \in 1..Len(filters) :
          /\ filters[i].AppliesTo = "input"
          /\ MatchedText(filters[i], lastCheck.content) # Nil

\* The number of frames of a kind written so far
FramesOf(kind) == Cardinality({i \in 1..Len(frames) : frames[i].kind = kind})

C36_ResponseOrError ==
    reply # Nil => ~(reply.kind = "panic" /\ requests = <<>>)

\* C38: a streaming call sends one request at most; when Do fails or the
\* status is not 200 (5xx included) the call returns that error after its
\* one request, no chunk was handed to onChunk and the output check did not
\* run.
C38_StreamSingleRequest ==
    /\ Len(requests) <= 1
    /\ (spc = "returned" /\ streamErr \in {ErrConnect, ErrStatus(500)}) =>
          /\ Len(requests) = 1
          /\ TokenTexts = <<>> /\ fullResponse = <<>>
          /\ lastCheck # Nil /\ lastCheck.direction = "input"

C38_Witness ==
    /\ spc = "returned" /\ ppc = "returned"
    /\ streamErr = ErrStatus(500)
    /\ Len(requests) = 1
    /\ FramesOf("error") = 1

\* The error ReloadFilters returns when the store query failed
ErrQuery == Err("query", {"sql"})

\* C39: a Reload whose store query fails returns the error and leaves the
\* installed list as it was: the list is the one of the last completed
\* Reload and every Check gives the verdict it gave before the call.
C39_FailedReloadKeepsRules ==
    [][ \A a \in Admins :
          (apc[a] = "query" /\ apc'[a] = "idle") =>
              /\ reloadRet'[a] = ErrQuery
              /\ rw'.w = 0
              /\ filters' = installed
              /\ \A t \in ReloadContents :
                    checkContent(filters', t, "input")
                        = checkContent(filters, t, "input") ]_vars

C39_Witness ==
    /\ \E a \in Admins : apc[a] = "idle" /\ reloadRet[a] = ErrQuery
    /\ \A a \in Admins : apc[a] = "idle"
    /\ filters # <<>>
    /\ filters # ReloadFilters(store)
    /\ lastCheck # Nil /\ lastCheck.result # Nil

\* C37: once the pump loop has returned because the caller disconnected
\* (the handler has returned), no further frame is written to the response
\* writer.
C37_NoWriteAfterReturn ==
    [][ (ppc = "returned" /\ streamCancelled) => frames' = frames ]_vars

\* ============================================================ the scraper
\* Texts are sequences of bytes here: a byte of an ASCII character is the
\* character, a byte of a longer encoding is written "0xNN"

\* The services as constructed, with no rule and nothing in progress
InitServices ==
    /\ store = {}
    /\ nextFilterID = 1
    /\ filters = ReloadFilters(store)
    /\ lastCheck = Nil
    /\ knowledge = <<>> /\ cfgRetries = DefaultRetries
    /\ currentModel = DefaultModel /\ convModel = ""
    /\ Settled

\* The budget enrichMessageWithURLContent passes for each URL
MaxChars == 8000

\* The fixed texts of ScrapeForAI's format strings
HeaderOpen == <<"=", "=", "=", " ", "C", "o", "n", "t", "e", "n", "i", "d", "o", " ", "d", "e", ":", " ">>
HeaderClose == <<" ", "=", "=", "=", "\n">>
TitleLabel == <<"T", "0xC3", "0xAD", "t", "u", "l", "o", ":", " ">>
ExtractedLabel == <<"E", "x", "t", "r", "a", "0xC3", "0xAD", "d", "o", ":", " ">>
MethodOpen == <<" ", "(", "m", "0xC3", "0xA9", "t", "o", "d", "o", ":", " ">>
MethodClose == <<")", "\n", "\n">>
TruncatedNote == <<"\n", "\n", "[", ".", ".", ".", " ", "c", "o", "n", "t", "e", "n", "i", "d", "o", " ", "t", "r", "u", "n", "c", "a", "d", "o", " ", ".", ".", ".", "]">>

\* ScrapedAt.Format("2006-01-02 15:04")
Digit(n) == <<"0", "1", "2", "3", "4", "5", "6", "7", "8", "9">>[n + 1]
TwoDigits(n) == <<Digit(n \div 10), Digit(n % 10)>>
FormatMinute(t) ==
    TwoDigits(t.year \div 100) \o TwoDigits(t.year % 100) \o <<"-">>
    \o TwoDigits(t.month) \o <<"-">> \o TwoDigits(t.day) \o <<" ">>
    \o TwoDigits(t.hour) \o <<":">> \o TwoDigits(t.minute)

\* text[:maxChars] and the note, when maxChars > 0 and len(text) > maxChars
Truncated(text, maxChars) ==
    IF maxChars > 0 /\ Len(text) > maxChars
    THEN SubSeq(text, 1, maxChars) \o TruncatedNote
    ELSE text

\* ScrapeForAI after Scrape returned (content, err)
ScrapeForAI(content, err, maxChars) ==
    IF err # Nil THEN [result |-> <<>>, err |-> err]
    ELSE IF ~content.Success
    THEN [result |-> <<>>, err |-> Err("scraping fallo", {})]
    ELSE [result |->
              HeaderOpen \o content.URL \o HeaderClose
              \o (IF content.Title # <<>>
                  THEN TitleLabel \o content.Title \o <<"\n">> ELSE <<>>)
              \o ExtractedLabel \o FormatMinute(content.ScrapedAt)
              \o MethodOpen \o content.Method \o MethodClose
              \o Truncated(content.Content, maxChars),
          err |-> Nil]

\* Lengths of the page texts Scrape may return: empty, short, around the
\* budget and twice the budget
PageLengths ==
    {0, 2, MaxChars - 200, MaxChars - 1, MaxChars, MaxChars + 1, 2 * MaxChars}

PageURL == <<"h", "t", "t", "p", ":", "/", "/", "x", ".">>
PageTime == [year |-> 2024, month |-> 3, day |-> 9, hour |-> 7, minute |-> 5]

\* What Scrape may return for the URL
ScrapedPages ==
    { [content |-> [URL |-> PageURL, Title |-> title,
                    Content |-> [i \in 1..n |-> "a"],
                    Method |-> method, Success |-> ok, ScrapedAt |-> PageTime],
       err |-> err] :
         title \in {<<>>, <<"T">>}, n \in PageLengths,
         method \in {<<"h", "t", "t", "p">>, <<"b", "r", "o", "w", "s", "e", "r">>},
         ok \in BOOLEAN, err \in {Nil} }
    \cup
    { [content |-> [URL |-> PageURL, Title |-> <<>>, Content |-> <<>>,
                    Method |-> method, Success |-> FALSE, ScrapedAt |-> PageTime],
       err |-> Err("scraping fallo", {"net"})] :
         method \in {<<>>, <<"h", "t", "t", "p">>} }

\* One iteration of enrichMessageWithURLContent's loop, up to the value
\* ScrapeForAI returns
ExtractURL ==
    /\ page # Nil /\ extract = Nil
    /\ extract' = ScrapeForAI(page.content, page.err, MaxChars)
    /\ UNCHANGED <<ruleVars, lastCheck, convVars, cfgVars, callVars, chatVars,
                   streamVars, lockVars, availVars, modelVars, turnVars,
                   wireVars, inputVars, page, limitVars, hubVars>>

InitScrape ==
    /\ InitServices
    /\ page \in ScrapedPages /\ extract = Nil
    /\ NoLimiter /\ NoHub

NextScrape == ExtractURL

SpecScrape == InitScrape /\ [][NextScrape]_vars

\* C35: for every page, the string ScrapeForAI returns for the URL has at
\* most maxChars (8000) characters.
C35_ExtractWithinBudget ==
    (extract # Nil /\ extract.err = Nil) => Len(extract.result) <= MaxChars

\* ======================================================= the rate limiter
\* Calls of Allow and Reset made, and how far the clock runs (seconds)
MaxCalls == 4
LimitHorizon == 4

\* The limits and windows (seconds) the limiter is constructed with
Limits == {1, 2}
Windows == {2, 3}

\* A comparison that lets an entry go one second before the window has
\* passed it
AfterNext(t, u) == t > u + 1

\* t.After(u)
After(t, u) == t > u

\* The entries of the key that Allow keeps: those after windowStart.  A key
\* that is not in the map reads as the nil slice and is not stored
Valid(entry, windowStart) ==
    IF ~entry.exists THEN NoEntry
    ELSE Entry(SelectSeq(entry.times, LAMBDA t : After(t, windowStart)))

\* RateLimiter.Allow, all of it under the mutex: old entries are dropped,
\* the call is denied when limit entries remain and recorded otherwise
Allow(key) ==
    /\ Len(allowLog) < MaxCalls
    /\ LET windowStart == now - rl.window
           valid == Valid(rl.requests[key], windowStart)
           ok == ~(Len(valid.times) >= rl.limit)
       IN  /\ rl' = [rl EXCEPT !.requests[key] =
                        IF ok THEN Entry(Append(valid.times, now)) ELSE valid]
           /\ allowLog' = Append(allowLog,
                  [op |-> "Allow", key |-> key, at |-> now, ok |-> ok])
    /\ UNCHANGED <<ruleVars, lastCheck, convVars, cfgVars, callVars, chatVars,
                   streamVars, lockVars, availVars, modelVars, turnVars,
                   wireVars, inputVars, scrapeVars, hubVars>>

\* RateLimiter.Reset: delete(rl.requests, key)
Reset(key) ==
    /\ Len(allowLog) < MaxCalls
    /\ rl' = [rl EXCEPT !.requests[key] = NoEntry]
    /\ allowLog' = Append(allowLog,
           [op |-> "Reset", key |-> key, at |-> now, ok |-> TRUE])
    /\ UNCHANGED <<ruleVars, lastCheck, convVars, cfgVars, callVars, chatVars,
                   streamVars, lockVars, availVars, modelVars, turnVars,
                   wireVars, inputVars, scrapeVars, hubVars>>

InitLimit ==
    /\ InitServices
    /\ \E limit \in Limits, window \in Windows :
          rl = [requests |-> [k \in Keys |-> NoEntry],
                limit |-> limit, window |-> window]
    /\ allowLog = <<>>
    /\ NoScrape /\ NoHub

NextLimit ==
    \/ \E key \in Keys : Allow(key)
    \/ \E key \in Keys : Reset(key)
    \/ now < LimitHorizon /\ Tick(1)

SpecLimit == InitLimit /\ [][NextLimit]_vars

\* The calls of the key after its last Reset that returned true, in order
ResetsOf(key) ==
    {i \in 1..Len(allowLog) : allowLog[i].op = "Reset" /\ allowLog[i].key = key}
LastReset(key) ==
    IF ResetsOf(key) = {} THEN 0
    ELSE CHOOSE i \in ResetsOf(key) : \A j \in ResetsOf(key) : j <= i
Granted(key) ==
    {i \in (LastReset(key) + 1)..Len(allowLog) :
        allowLog[i].op = "Allow" /\ allowLog[i].key = key /\ allowLog[i].ok}
GrantedTimes(key) ==
    LET calls == SelectSeq([i \in 1..Len(allowLog) |-> i],
                           LAMBDA i : i \in Granted(key))
    IN  [n \in 1..Len(calls) |-> allowLog[calls[n]].at]
IsSuffix(s, t) ==
    Len(s) <= Len(t) /\ s = SubSeq(t, Len(t) - Len(s) + 1, Len(t))

\* What the entries of the map are: the granted calls, the latest ones; a
\* denied call added none
OnlyGrantedRecorded ==
    \A key \in Keys : IsSuffix(rl.requests[key].times, GrantedTimes(key))

\* The call of the key that follows a Reset of it returned true
GrantedAfterReset ==
    \A i \in 1..Len(allowLog), j \in 1..Len(allowLog) :
        ( /\ i < j
          /\ allowLog[i].op = "Reset"
          /\ allowLog[j].key = allowLog[i].key
          /\ \A m \in (i + 1)..(j - 1) : allowLog[m].key # allowLog[i].key )
        => allowLog[j].ok

\* C32: for each key, among the Allow calls since its last Reset at most
\* limit granted calls have their timestamps in a window (t - window, t],
\* open at its old end; a denied call is not recorded, and the Allow that
\* follows Reset(key) returns true.
C32_LimitPerWindow ==
    /\ \A key \in Keys : \A i \in Granted(key) :
          Cardinality({j \in Granted(key) :
                          /\ allowLog[j].at > allowLog[i].at - rl.window
                          /\ allowLog[j].at <= allowLog[i].at}) <= rl.limit
    /\ OnlyGrantedRecorded
    /\ GrantedAfterReset

\* C32 as it is worded: at most limit granted calls in any interval of
\* length window, its two ends included
C32_LimitPerClosedInterval ==
    \A key \in Keys : \A i \in Granted(key) :
        Cardinality({j \in Granted(key) :
                        /\ allowLog[j].at >= allowLog[i].at - rl.window
                        /\ allowLog[j].at <= allowLog[i].at}) <= rl.limit

C32_Witness ==
    /\ Len(allowLog) = 4
    /\ \A i \in 1..4 : allowLog[i].key = "ip1"
    /\ allowLog[1].op = "Allow" /\ allowLog[1].ok
    /\ allowLog[2].op = "Allow" /\ ~allowLog[2].ok
    /\ allowLog[2].at = allowLog[1].at + rl.window - 1
    /\ allowLog[3].op = "Reset"
    /\ allowLog[4].op = "Allow" /\ allowLog[4].ok /\ allowLog[4].at = allowLog[2].at

\* ========================================================= the group chat
\* The capacity of a client's send channel (make(chan []byte, 256), scaled)
\* and the messages one readPump reads
SendCap == 1
MaxReads == 2

\* The JSON a goroutine puts on a channel: the type and whose it is
Data(type, c) == [Type |-> type, from |-> c]

\* What conn.ReadMessage may return: an error, bytes that are no JSON
\* object, or a message with its content
Incoming ==
    { [kind |-> "error", content |-> <<>>],
      [kind |-> "garbage", content |-> <<>>],
      [kind |-> "json", content |-> <<>>],
      [kind |-> "json", content |-> <<"h", "i">>],
      [kind |-> "json", content |-> <<"D", "T">>] }

hubOther == <<ruleVars, convVars, cfgVars, callVars, chatVars, streamVars,
              lockVars, availVars, modelVars, turnVars, wireVars, inputVars,
              scrapeVars, limitVars>>

\* broadcastToAll begins: the loop will visit the clients of the map
Broadcasting(message, members) ==
    /\ hubloc' = [message |-> message, todo |-> members]
    /\ hubpc' = IF members = {} THEN "select" ELSE "range"

\* close(ch): a second close panics
Close(c) ==
    /\ closes' = [closes EXCEPT ![c] = closes[c] + 1]
    /\ hubPanic' = IF closes[c] > 0 THEN "close of closed channel" ELSE hubPanic

\* The handler hands the client to the hub (h.hub.register <- client), the
\* hub's register case adds it to the map and begins the broadcast; the
\* handler starts the two pumps
HubRegister(c) ==
    /\ hubPanic = "" /\ hubpc = "select" /\ rpc[c] = "new"
    /\ clients' = clients \cup {c}
    /\ Broadcasting(Data("system", c), clients')
    /\ rpc' = [rpc EXCEPT ![c] = "read"]
    /\ wpc' = [wpc EXCEPT ![c] = "run"]
    /\ UNCHANGED <<hubOther, lastCheck, send, closes, rloc, hubPanic,
                   groupMessages>>

\* The hub's unregister case: a client of the map is deleted and its
\* channel closed; the broadcast begins.  The readPump's deferred function
\* goes on to conn.Close()
HubUnregister(c) ==
    /\ hubPanic = "" /\ hubpc = "select" /\ rpc[c] = "unreg"
    /\ IF c \in clients
       THEN clients' = clients \ {c} /\ Close(c)
       ELSE UNCHANGED <<clients, closes, hubPanic>>
    /\ Broadcasting(Data("system", c), clients')
    /\ rpc' = [rpc EXCEPT ![c] = "done"]
    /\ UNCHANGED <<hubOther, lastCheck, send, rloc, wpc, groupMessages>>

\* The hub's broadcast case: the message of a readPump is received
HubBroadcast(c) ==
    /\ hubPanic = "" /\ hubpc = "select" /\ rpc[c] = "bcast"
    /\ Broadcasting(rloc[c].data, clients)
    /\ rpc' = [rpc EXCEPT ![c] = "read"]
    /\ UNCHANGED <<hubOther, lastCheck, clients, send, closes, rloc, wpc,
                   hubPanic, groupMessages>>

\* One iteration of broadcastToAll's loop: the message is put on the
\* client's channel when there is room; when there is none the channel is
\* closed and the client deleted.  A send on a closed channel panics
HubRange(c) ==
    /\ hubPanic = "" /\ hubpc = "range" /\ c \in hubloc.todo
    /\ IF closes[c] > 0
       THEN /\ hubPanic' = "send on closed channel"
            /\ UNCHANGED <<send, closes, clients>>
       ELSE IF Len(send[c]) < SendCap
       THEN /\ send' = [send EXCEPT ![c] = Append(send[c], hubloc.message)]
            /\ UNCHANGED <<closes, clients, hubPanic>>
       ELSE /\ Close(c)
            /\ clients' = clients \ {c}
            /\ UNCHANGED send
    /\ hubloc' = [hubloc EXCEPT !.todo = hubloc.todo \ {c}]
    /\ hubpc' = IF hubloc'.todo = {} THEN "select" ELSE "range"
    /\ UNCHANGED <<hubOther, lastCheck, rpc, rloc, wpc, groupMessages>>

\* readPump from ReadMessage to the point where it sends: an error ends the
\* loop; bytes that do not decode and an empty content are skipped; the
\* sanitised content is checked, a blocked one makes the notice; the others
\* are stored (stored tells whether CreateGroupMessage succeeded) and made
\* into the message for the hub
ReadMessage(c, incoming, stored) ==
    /\ hubPanic = "" /\ rpc[c] = "read"
    /\ incoming.kind = "error" \/ rloc[c].reads < MaxReads
    /\ LET content == SanitizeForDisplay(incoming.content)
           verdict == CheckInput(filters, content)
           checked == incoming.kind = "json" /\ incoming.content # <<>>
           blocked == checked /\ verdict # Nil /\ verdict.Blocked
       IN  /\ lastCheck' = IF checked
                           THEN [direction |-> "input", content |-> content,
                                 result |-> verdict]
                           ELSE lastCheck
           /\ groupMessages' = IF checked /\ ~blocked /\ stored
                               THEN Append(groupMessages, content)
                               ELSE groupMessages
           /\ rpc' = [rpc EXCEPT ![c] =
                        IF incoming.kind = "error" THEN "unreg"
                        ELSE IF blocked THEN "notice"
                        ELSE IF checked /\ stored THEN "bcast"
                        ELSE "read"]
           /\ rloc' = [rloc EXCEPT ![c] =
                        [data |-> IF blocked THEN Data("error", c)
                                  ELSE IF checked /\ stored
                                  THEN Data("message", c)
                                  ELSE rloc[c].data,
                         reads |-> IF incoming.kind = "error"
                                   THEN rloc[c].reads
                                   ELSE rloc[c].reads + 1]]
    /\ UNCHANGED <<hubOther, clients, send, closes, hubpc, hubloc, wpc,
                   hubPanic>>

\* c.send <- data in readPump: the notice of a blocked message.  The send
\* waits while the channel is full and panics when the channel is closed
ReadNotice(c) ==
    /\ hubPanic = "" /\ rpc[c] = "notice"
    /\ closes[c] > 0 \/ Len(send[c]) < SendCap
    /\ IF closes[c] > 0
       THEN /\ hubPanic' = "send on closed channel"
            /\ UNCHANGED <<send, rpc>>
       ELSE /\ send' = [send EXCEPT ![c] = Append(send[c], rloc[c].data)]
            /\ rpc' = [rpc EXCEPT ![c] = "read"]
            /\ UNCHANGED hubPanic
    /\ UNCHANGED <<hubOther, lastCheck, clients, closes, hubpc, hubloc, rloc,
                   wpc, groupMessages>>

\* writePump receives from c.send: a message is written to the connection
\* (written tells whether the write succeeded); on the closed and empty
\* channel the close message is written; after either, or a failed write,
\* the pump returns
WritePump(c, written) ==
    /\ hubPanic = "" /\ wpc[c] = "run"
    /\ send[c] # <<>> \/ closes[c] > 0
    /\ send' = [send EXCEPT ![c] = IF send[c] # <<>> THEN Tail(send[c]) ELSE <<>>]
    /\ wpc' = [wpc EXCEPT ![c] =
                 IF send[c] # <<>> /\ written THEN "run" ELSE "done"]
    /\ UNCHANGED <<hubOther, lastCheck, clients, closes, hubpc, hubloc, rpc,
                   rloc, hubPanic, groupMessages>>

InitHub ==
    /\ InitConv
    /\ Cardinality(store) = 2
    /\ knowledge = <<>> /\ convModel = ""

NextHub ==
    \/ \E c \in HubClients : HubRegister(c)
    \/ \E c \in HubClients : HubUnregister(c)
    \/ \E c \in HubClients : HubBroadcast(c)
    \/ \E c \in HubClients : HubRange(c)
    \/ \E c \in HubClients, incoming \in Incoming, stored \in BOOLEAN :
          ReadMessage(c, incoming, stored)
    \/ \E c \in HubClients : ReadNotice(c)
    \/ \E c \in HubClients, written \in BOOLEAN : WritePump(c, written)

SpecHub == InitHub /\ [][NextHub]_vars

\* C40: in every interleaving of Hub.Run with the readPumps each client's
\* send channel is closed at most once, and nothing is sent on a client's
\* send channel after the hub closed it, neither by the hub's broadcast nor
\* by a readPump's notice of a blocked message (either would panic).
C40_SendChannelSafe ==
    /\ \A c \in HubClients : closes[c] <= 1
    /\ hubPanic = ""

====
